---- MODULE Spec2Model ----
(***************************************************************************)
(* Authentication-aware tool binding and invocation core of the Toolbox    *)
(* client SDKs.                                                            *)
(*                                                                         *)
(*   Spec    the LlamaIndex ToolboxClient: one credential registry         *)
(*           (_id_token_getters) and one requirement map                   *)
(*           (_tool_param_auth) shared by every tool the client generates. *)
(*   SpecLC  the LangChain ToolboxTool: immutable tool values, each with   *)
(*           its own auth tokens, auth parameters and bound parameters.    *)
(*   SpecCall, SpecConc, SpecSingle  invocations of LangChain tools, one   *)
(*           at a time and overlapping, and the single-key forms.          *)
(*   SpecExtract, SpecLoad, SpecInvoke, SpecClose, SpecTypes  parts of the *)
(*           LlamaIndex client on their own: manifest processing, whole    *)
(*           loads, _invoke_tool, the session's life, _parse_type.         *)
(*                                                                         *)
(* Python dicts are functions, lists are sequences, None is a tagged       *)
(* value.  JSON scalars are tagged strings ("none", "int:5", "str:x",      *)
(* "str:" for the empty string).                                           *)
(***************************************************************************)
EXTENDS Integers, Sequences, FiniteSets, TLC

VARIABLES
    url,               \* ToolboxClient._url
    id_token_getters,  \* ToolboxClient._id_token_getters : source -> getter
    tool_param_auth,   \* ToolboxClient._tool_param_auth : tool -> param -> sources
    generated,         \* the FunctionTool objects handed out : tool -> record
    pending,           \* the load awaiting its manifest GET, or NoLoad
    tools,             \* the LangChain ToolboxTool values created so far
    clock,             \* what a function-valued bound parameter returns now
    should_close_session,  \* ToolboxClient._should_close_session
    session,           \* ToolboxClient._session: how often its close() was awaited
    teardown,          \* close() calls made and where __del__ stands
    inflight,          \* the invocations whose POST awaits its response
    dicts,             \* the dict objects the _auth_tokens of toolset tools refer to
    last               \* what the last operation was given, did and returned

vars ==
    <<url, id_token_getters, tool_param_auth, generated, pending, tools, clock,
      should_close_session, session, teardown,
      inflight,
      dicts, last>>

(***************************************************************************)
(* Bounds of the model.                                                    *)
(***************************************************************************)
MaxArgs == 1        \* keyword arguments of one invocation
MaxParams == 2      \* parameters of one manifest (SpecExtract)
MaxTools == 3       \* ToolboxTool values alive at once (SpecLC)
MaxBind == 1        \* names in one bind_params call (SpecLC)
MaxClock == 1       \* times the bound function's value changes (SpecCall)
MaxCallTools == 2   \* ToolboxTool values alive at once (SpecCall)
MaxClose == 2       \* explicit close() calls on one client (SpecClose)
MaxCalls == 2       \* invocations awaiting their response at once (SpecConc)
MaxFields == 2      \* fields of one schema (SpecTypes)

(***************************************************************************)
(* Input domains.                                                          *)
(***************************************************************************)
Sources == {"s1", "s2"}
Getters == {"g1", "g2"}
ToolNames == {"t1", "t2"}
ParamNames == {"p1", "p2"}
BaseUrl == "http://h"
Values == {"none", "int:5"}

\* Calling a registered zero-argument getter: each getter yields its own token.
GetIdToken(g) == IF g = "g1" THEN "tok1" ELSE "tok2"

(***************************************************************************)
(* Python dict and list helpers.                                           *)
(***************************************************************************)
EmptyDict == [k \in {} |-> k]

DictSet(d, k, v) == [x \in DOMAIN d \cup {k} |-> IF x = k THEN v ELSE d[x]]

DictUpdate(d, e) ==
    [x \in DOMAIN d \cup DOMAIN e |-> IF x \in DOMAIN e THEN e[x] ELSE d[x]]

DictValues(d) == {d[k] : k \in DOMAIN d}

InList(x, l) == \E i \in 1..Len(l) : l[i] = x

StartsWith(s, prefix) ==
    Len(s) >= Len(prefix) /\ SubSeq(s, 1, Len(prefix)) = prefix

(***************************************************************************)
(* Schema model (utils.py).  authSources is Optional[list[str]].           *)
(***************************************************************************)
None == [isNone |-> TRUE, list |-> <<>>]
Some(l) == [isNone |-> FALSE, list |-> l]

ParameterSchema(n, t, a) == [name |-> n, type |-> t, authSources |-> a]

\* Python truthiness of Optional[list]: None and [] are both falsy.
Truthy(a) == ~a.isNone /\ a.list # <<>>

ToolSchema(params) == [description |-> "d", parameters |-> params]

\* The declared scalar type of each parameter name in the manifests served.
TypeOf(n) == IF n = "p1" THEN "string" ELSE "integer"

\* What a manifest may declare as authSources of a parameter: absent (p1)
\* or empty (p2) for a plain parameter, or a list of acceptable sources.
AuthSourcesOptions(n) ==
    IF n = "p1" THEN {None, Some(<<"s1">>), Some(<<"s2", "s1">>)}
    ELSE {Some(<<>>), Some(<<"s1">>)}

Param(n, a) == ParameterSchema(n, TypeOf(n), a)

\* Parameter lists of one tool: distinct names, either order.
ParamsOf(n) == {Param(n, a) : a \in AuthSourcesOptions(n)}

ParamLists ==
    {<<>>}
    \cup {<<x>> : x \in ParamsOf("p1") \cup ParamsOf("p2")}
    \cup {<<x, y>> : x \in ParamsOf("p1"), y \in ParamsOf("p2")}
    \cup {<<y, x>> : x \in ParamsOf("p1"), y \in ParamsOf("p2")}

\* The parameter lists of the tools of the service the client talks to in
\* Spec: the manifest of the end-to-end scenario (an authenticated parameter
\* before a plain one), two authenticated parameters of which one accepts
\* two sources, and two plain parameters.
ServedLists ==
    {<<Param("p1", Some(<<"s1">>)), Param("p2", Some(<<>>))>>,
     <<Param("p2", Some(<<"s1">>)), Param("p1", Some(<<"s2", "s1">>))>>,
     <<Param("p2", Some(<<>>)), Param("p1", None)>>}

\* ManifestSchema.tools: the manifests over the tool names S whose tools
\* take their parameter lists from L.
ManifestsOver(S, L) == [S -> {ToolSchema(l) : l \in L}]

(***************************************************************************)
(* utils.py: credential headers, body conversion, the invocation POST.     *)
(***************************************************************************)
HeaderName(auth_source) == auth_source \o "_token"

GetAuthHeadersUnnamed(getters) ==
    [h \in DOMAIN getters |-> GetIdToken(getters[h])]

\* _get_auth_headers: one header per entry of the getters map, each getter
\* called once.
GetAuthHeaders(getters) ==
    [h \in {HeaderName(s) : s \in DOMAIN getters} |->
        GetIdToken(getters[CHOOSE s \in DOMAIN getters : HeaderName(s) = h])]

\* How often each getter is called.  No getter is called:
NoCalls == [g \in Getters |-> 0]

\* _get_auth_headers: get_id_token() once for each entry of the getters map.
GetterCalls(getters) ==
    [g \in Getters |-> Cardinality({s \in DOMAIN getters : getters[s] = g})]

\* Mutant of ConvertNoneToEmptyString: a key whose value is None is left out.
ConvertNoneDropped(input_dict) ==
    [key \in {k \in DOMAIN input_dict : input_dict[k] # "none"} |->
        input_dict[key]]

\* _convert_none_to_empty_string: the dict it returns.
ConvertNoneToEmptyString(input_dict) ==
    [key \in DOMAIN input_dict |->
        IF input_dict[key] = "none" THEN "str:" ELSE input_dict[key]]

\* _convert_none_to_empty_string: what its argument holds afterwards.  The
\* result is built in new_dict; input_dict is only read.
InputAfterConvert(input_dict) == input_dict

\* What the transport answers to a POST: a 2xx with a JSON body, or a non-2xx.
Responses == {[ok |-> TRUE, json |-> "str:row"], [ok |-> FALSE, json |-> "none"]}

InsecureWarning == [kind |-> "insecure", tool |-> ""]
AuthWarning(tool_name) == [kind |-> "auth", tool |-> tool_name]
DeprecationBoth == [kind |-> "deprecated_both", tool |-> ""]
DeprecationHeaders == [kind |-> "deprecated_headers", tool |-> ""]

\* The outcome of an operation: how it ended, the POSTs it issued, the
\* warnings it emitted and what it returned.
Outcome(o, reqs, warns, res) ==
    [outcome |-> o, requests |-> reqs, warnings |-> warns, result |-> res]

\* Mutant of InvokeTool: a refused POST is sent a second time.
InvokeToolRetry(base, tool_name, data, getters, response) ==
    LET u == base \o "/api/tool/" \o tool_name \o "/invoke"
        auth_headers == GetAuthHeaders(getters)
        warns == IF auth_headers # EmptyDict /\ ~StartsWith(u, "https://")
                 THEN {InsecureWarning} ELSE {}
        request == [url |-> u,
                    json |-> ConvertNoneToEmptyString(data),
                    headers |-> auth_headers]
    IN  IF response.ok
        THEN Outcome("ok", <<request>>, warns, response.json)
        ELSE Outcome("ClientResponseError", <<request, request>>, warns, "none")

\* Mutant of InvokeTool: the warning is given whenever the URL is not https.
InvokeToolWarnsWithoutHeaders(base, tool_name, data, getters, response) ==
    LET u == base \o "/api/tool/" \o tool_name \o "/invoke"
        auth_headers == GetAuthHeaders(getters)
        warns == IF ~StartsWith(u, "https://") THEN {InsecureWarning} ELSE {}
        request == [url |-> u,
                    json |-> ConvertNoneToEmptyString(data),
                    headers |-> auth_headers]
    IN  IF response.ok
        THEN Outcome("ok", <<request>>, warns, response.json)
        ELSE Outcome("ClientResponseError", <<request>>, warns, "none")

InvokeToolWrongUrl(base, tool_name, data, getters, response) ==
    LET request == [url |-> base \o "/api/tool/" \o tool_name,
                    json |-> ConvertNoneToEmptyString(data),
                    headers |-> GetAuthHeaders(getters)]
    IN  Outcome("ok", <<request>>, {}, response.json)

InvokeTool(base, tool_name, data, getters, response) ==
    LET u == base \o "/api/tool/" \o tool_name \o "/invoke"
        auth_headers == GetAuthHeaders(getters)
        warns == IF auth_headers # EmptyDict /\ ~StartsWith(u, "https://")
                 THEN {InsecureWarning} ELSE {}
        request == [url |-> u,
                    json |-> ConvertNoneToEmptyString(data),
                    headers |-> auth_headers]
    IN  IF response.ok
        THEN Outcome("ok", <<request>>, warns, response.json)
        ELSE Outcome("ClientResponseError", <<request>>, warns, "none")

(***************************************************************************)
(* LlamaIndex ToolboxClient (client.py).                                   *)
(***************************************************************************)
ValidateAuthFirstSourceOnly(tpa, getters, tool_name) ==
    IF tool_name \notin DOMAIN tpa THEN TRUE
    ELSE \A permitted_auth_sources \in DictValues(tpa[tool_name]) :
            permitted_auth_sources[1] \in DOMAIN getters

ValidateAuth(tpa, getters, tool_name) ==
    IF tool_name \notin DOMAIN tpa THEN TRUE
    ELSE \A permitted_auth_sources \in DictValues(tpa[tool_name]) :
            LET found_match ==
                    \E registered_auth_source \in DOMAIN getters :
                        InList(registered_auth_source, permitted_auth_sources)
            IN  found_match

ToolFuncUnchecked(base, tpa, getters, tool_name, kwargs, response) ==
    InvokeTool(base, tool_name, kwargs, getters, response)

\* The closure _generate_tool returns: the auth check, then the POST.
ToolFunc(base, tpa, getters, tool_name, kwargs, response) ==
    IF ~ValidateAuth(tpa, getters, tool_name)
    THEN Outcome("PermissionError", <<>>, {}, "none")
    ELSE InvokeTool(base, tool_name, kwargs, getters, response)

\* The getters the closure calls: none when the auth check refuses, else
\* those _invoke_tool calls through _get_auth_headers.
ToolFuncCalls(tpa, getters, tool_name) ==
    IF ~ValidateAuth(tpa, getters, tool_name) THEN NoCalls
    ELSE GetterCalls(getters)

AddAuthTokenReplaceAll(getters, auth_source, get_id_token) ==
    [x \in {auth_source} |-> get_id_token]

AddAuthTokenKeepFirst(getters, auth_source, get_id_token) ==
    IF auth_source \in DOMAIN getters THEN getters
    ELSE DictSet(getters, auth_source, get_id_token)

AddAuthToken(getters, auth_source, get_id_token) ==
    DictSet(getters, auth_source, get_id_token)

\* The inner loop of _process_auth_params over one tool's parameters:
\* acc.non_auth_params collects the plain parameters, acc.tpa is the
\* requirement map being written.
RECURSIVE ExtractParams(_, _, _)
ExtractParams(tool_name, params, acc) ==
    IF params = <<>> THEN acc
    ELSE LET param == Head(params)
         IN  IF ~Truthy(param.authSources)
             THEN ExtractParams(tool_name, Tail(params),
                      [acc EXCEPT !.non_auth_params = Append(@, param)])
             ELSE ExtractParams(tool_name, Tail(params),
                      [acc EXCEPT !.tpa =
                          DictSet(@, tool_name,
                              DictSet(IF tool_name \in DOMAIN @
                                      THEN @[tool_name] ELSE EmptyDict,
                                      param.name, param.authSources.list))])

\* As ProcessAuthParams, but each tool is validated before its parameters
\* are extracted.
RECURSIVE ProcessAuthParamsCheckFirst(_, _, _)
ProcessAuthParamsCheckFirst(todo, getters, st) ==
    IF todo = {} THEN st
    ELSE LET tool_name == CHOOSE t \in todo : TRUE
             ex == ExtractParams(tool_name, st.manifest[tool_name].parameters,
                       [non_auth_params |-> <<>>, tpa |-> st.tpa])
             manifest == [st.manifest EXCEPT
                             ![tool_name].parameters = ex.non_auth_params]
             warns == IF ~ValidateAuth(st.tpa, getters, tool_name)
                      THEN st.warnings \cup {AuthWarning(tool_name)}
                      ELSE st.warnings
         IN  ProcessAuthParamsCheckFirst(todo \ {tool_name}, getters,
                 [manifest |-> manifest, tpa |-> ex.tpa, warnings |-> warns])

\* Mutant of ProcessAuthParams: the entry of a tool is emptied before the
\* tool's parameters are extracted.
RECURSIVE ProcessAuthParamsReset(_, _, _)
ProcessAuthParamsReset(todo, getters, st) ==
    IF todo = {} THEN st
    ELSE LET tool_name == CHOOSE t \in todo : TRUE
             ex == ExtractParams(tool_name, st.manifest[tool_name].parameters,
                       [non_auth_params |-> <<>>,
                        tpa |-> [t \in DOMAIN st.tpa \ {tool_name} |-> st.tpa[t]]])
             manifest == [st.manifest EXCEPT
                             ![tool_name].parameters = ex.non_auth_params]
             warns == IF ~ValidateAuth(ex.tpa, getters, tool_name)
                      THEN st.warnings \cup {AuthWarning(tool_name)}
                      ELSE st.warnings
         IN  ProcessAuthParamsReset(todo \ {tool_name}, getters,
                 [manifest |-> manifest, tpa |-> ex.tpa, warnings |-> warns])

\* _process_auth_params that keeps the entries of the manifest's tools alone.
RECURSIVE ProcessAuthParamsOnly(_, _, _)
ProcessAuthParamsOnly(todo, getters, st) ==
    IF todo = {} THEN st
    ELSE LET tool_name == CHOOSE t \in todo : TRUE
             ex == ExtractParams(tool_name, st.manifest[tool_name].parameters,
                       [non_auth_params |-> <<>>,
                        tpa |-> [t \in DOMAIN st.tpa \cap DOMAIN st.manifest |->
                                    st.tpa[t]]])
             manifest == [st.manifest EXCEPT
                             ![tool_name].parameters = ex.non_auth_params]
             warns == IF ~ValidateAuth(ex.tpa, getters, tool_name)
                      THEN st.warnings \cup {AuthWarning(tool_name)}
                      ELSE st.warnings
         IN  ProcessAuthParamsOnly(todo \ {tool_name}, getters,
                 [manifest |-> manifest, tpa |-> ex.tpa, warnings |-> warns])

\* _process_auth_params: st.manifest is mutated in place, st.tpa is the
\* requirement map, st.warnings the warnings emitted so far.
RECURSIVE ProcessAuthParams(_, _, _)
ProcessAuthParams(todo, getters, st) ==
    IF todo = {} THEN st
    ELSE LET tool_name == CHOOSE t \in todo : TRUE
             ex == ExtractParams(tool_name, st.manifest[tool_name].parameters,
                       [non_auth_params |-> <<>>, tpa |-> st.tpa])
             manifest == [st.manifest EXCEPT
                             ![tool_name].parameters = ex.non_auth_params]
             warns == IF ~ValidateAuth(ex.tpa, getters, tool_name)
                      THEN st.warnings \cup {AuthWarning(tool_name)}
                      ELSE st.warnings
         IN  ProcessAuthParams(todo \ {tool_name}, getters,
                 [manifest |-> manifest, tpa |-> ex.tpa, warnings |-> warns])

\* _schema_to_model: the fields of the input model, in order.
SchemaToModel(schema) == [i \in 1..Len(schema) |->
                            [name |-> schema[i].name, type |-> schema[i].type]]

\* _generate_tool: the FunctionTool for tool_name (the manifest holds it).
GenerateTool(tool_name, manifest) ==
    [name |-> tool_name,
     description |-> manifest[tool_name].description,
     fn_schema |-> SchemaToModel(manifest[tool_name].parameters)]

\* The head of a load that registers both mappings when both are given.
ResolveAuthTokensBoth(auth_tokens, auth_headers) ==
    IF auth_headers # EmptyDict
    THEN IF auth_tokens # EmptyDict
         THEN [tokens |-> [s \in DOMAIN auth_tokens \cup DOMAIN auth_headers |->
                              IF s \in DOMAIN auth_tokens THEN auth_tokens[s]
                              ELSE auth_headers[s]],
               warnings |-> {DeprecationBoth}]
         ELSE [tokens |-> auth_headers, warnings |-> {DeprecationHeaders}]
    ELSE [tokens |-> auth_tokens, warnings |-> {}]

\* The head of load_tool / load_toolset: which mapping gets registered.
ResolveAuthTokens(auth_tokens, auth_headers) ==
    IF auth_headers # EmptyDict
    THEN IF auth_tokens # EmptyDict
         THEN [tokens |-> auth_tokens, warnings |-> {DeprecationBoth}]
         ELSE [tokens |-> auth_headers, warnings |-> {DeprecationHeaders}]
    ELSE [tokens |-> auth_tokens, warnings |-> {}]

(***************************************************************************)
(* Inputs of the operations.                                               *)
(***************************************************************************)
\* The auth_tokens argument of a load and the deprecated auth_headers
\* argument: each absent or one entry.
AuthTokenArgs == {EmptyDict, [s \in {"s1"} |-> "g2"]}
AuthHeaderArgs == {EmptyDict, [s \in {"s2"} |-> "g1"]}

\* Keyword arguments of an invocation.
KwargsSet ==
    UNION {[S -> Values] : S \in {T \in SUBSET ParamNames : Cardinality(T) <= MaxArgs}}

\* What the manifest GET may end in (_load_manifest): a transport error, a
\* body that is not JSON, a body that is not a manifest, or a manifest.
FetchErrors == {"ClientResponseError", "JSONDecodeError", "ValueError"}

\* Manifests served for one tool name hold that tool alone (or, from a
\* service that does not know it, another tool or none); toolset manifests
\* hold any set of tools.
ToolManifests(L) ==
    UNION {ManifestsOver(S, L) : S \in {{}} \cup {{t} : t \in ToolNames}}
ToolsetManifests(L) ==
    UNION {ManifestsOver(S, L) : S \in SUBSET ToolNames}

\* ClientSession(): nothing closed it yet.
NewSession == [closes |-> 0]
\* A client no one closed or finalised.
Alive == [calls |-> 0, del |-> "live"]

NoLoad == [op |-> "none", tool |-> ""]

Idle == [op |-> "init", tool |-> "", args |-> EmptyDict,
         out |-> Outcome("ok", <<>>, {}, "none")]

(***************************************************************************)
(* Spec: the LlamaIndex client.                                            *)
(***************************************************************************)
Init ==
    /\ url = BaseUrl
    /\ id_token_getters = EmptyDict
    /\ tool_param_auth = EmptyDict
    /\ generated = EmptyDict
    /\ pending = NoLoad
    /\ tools = {}
    /\ clock = 0
    /\ dicts = <<>>
    /\ inflight = {}
    /\ teardown = Alive
    /\ session = NewSession
    /\ should_close_session = TRUE
    /\ last = Idle

\* Mutant of DoAddAuthToken: the getter is called when it is registered.
DoAddAuthTokenEager(auth_source, get_id_token) ==
    /\ id_token_getters' = AddAuthToken(id_token_getters, auth_source, get_id_token)
    /\ last' = [op |-> "add_auth_token", tool |-> "",
                args |-> [auth_source |-> auth_source, get_id_token |-> get_id_token],
                out |-> Outcome("ok", <<>>, {}, "none"),
                called |-> [NoCalls EXCEPT ![get_id_token] = 1]]
    /\ UNCHANGED <<url, tool_param_auth, generated, pending, tools, clock,
                   should_close_session, session, teardown, inflight, dicts>>

\* client.add_auth_token(auth_source, get_id_token)
DoAddAuthToken(auth_source, get_id_token) ==
    /\ id_token_getters' = AddAuthToken(id_token_getters, auth_source, get_id_token)
    /\ last' = [op |-> "add_auth_token", tool |-> "",
                args |-> [auth_source |-> auth_source, get_id_token |-> get_id_token],
                out |-> Outcome("ok", <<>>, {}, "none"), called |-> NoCalls]
    /\ UNCHANGED <<url, tool_param_auth, generated, pending, tools, clock,
                   should_close_session, session, teardown, inflight, dicts>>

\* for auth_source, get_id_token in auth_tokens.items(): add_auth_token(...)
RECURSIVE RegisterAll(_, _)
RegisterAll(getters, tokens) ==
    IF tokens = EmptyDict THEN getters
    ELSE LET auth_source == CHOOSE x \in DOMAIN tokens : TRUE
         IN  RegisterAll(AddAuthToken(getters, auth_source, tokens[auth_source]),
                 [x \in DOMAIN tokens \ {auth_source} |-> tokens[x]])

\* load_tool / load_toolset up to the await of the manifest GET: the
\* deprecation handling and the registration of the given tokens.
LoadBegin(op, tool_name, auth_tokens, auth_headers) ==
    /\ pending = NoLoad
    /\ LET r == ResolveAuthTokens(auth_tokens, auth_headers)
       IN  /\ id_token_getters' = RegisterAll(id_token_getters, r.tokens)
           /\ pending' = [op |-> op, tool |-> tool_name]
           /\ last' = [op |-> op, tool |-> tool_name, args |-> r.tokens,
                       auth_tokens |-> auth_tokens, auth_headers |-> auth_headers,
                       out |-> Outcome("pending", <<>>, r.warnings, "none"),
                       called |-> NoCalls]
    /\ UNCHANGED <<url, tool_param_auth, generated, tools, clock,
                   should_close_session, session, teardown, inflight, dicts>>

\* The manifest GET fails: the load ends with the transport or parse error.
LoadFail(error) ==
    /\ pending # NoLoad
    /\ pending' = NoLoad
    /\ last' = [op |-> pending.op, tool |-> pending.tool, args |-> EmptyDict,
                out |-> Outcome(error, <<>>, {}, "none"), called |-> NoCalls]
    /\ UNCHANGED <<url, id_token_getters, tool_param_auth, generated, tools, clock,
                   should_close_session, session, teardown, inflight, dicts>>

\* The rest of a load, once the manifest is there: _process_auth_params,
\* then _generate_tool for the requested tool or for every tool.
FinishLoad(op, tool_name, fetched, tpa, getters) ==
    LET st == ProcessAuthParams(DOMAIN fetched, getters,
                  [manifest |-> fetched, tpa |-> tpa, warnings |-> {}])
        names == IF op = "load_tool" THEN {tool_name} ELSE DOMAIN fetched
    IN  IF names \subseteq DOMAIN st.manifest
        THEN [tpa |-> st.tpa, manifest |-> st.manifest, warnings |-> st.warnings,
              outcome |-> "ok",
              returned |-> [t \in names |-> GenerateTool(t, st.manifest)]]
        ELSE [tpa |-> st.tpa, manifest |-> st.manifest, warnings |-> st.warnings,
              outcome |-> "KeyError", returned |-> EmptyDict]

\* The manifest arrives and the load runs to its end.  The tools it returns
\* are recorded by name.
LoadFinish(fetched) ==
    /\ pending # NoLoad
    /\ LET r == FinishLoad(pending.op, pending.tool, fetched, tool_param_auth,
                    id_token_getters)
       IN  /\ tool_param_auth' = r.tpa
           /\ generated' =
                 DictUpdate(generated,
                     [t \in DOMAIN r.returned |->
                         [warned |-> AuthWarning(t) \in r.warnings]])
           /\ last' = [op |-> pending.op, tool |-> pending.tool, args |-> EmptyDict,
                       fetched |-> DOMAIN fetched,
                       out |-> Outcome(r.outcome, <<>>, r.warnings, DOMAIN r.returned),
                       called |-> NoCalls]
    /\ pending' = NoLoad
    /\ UNCHANGED <<url, id_token_getters, tools, clock, should_close_session, session, teardown,
                   inflight, dicts>>

\* A generated tool is called with keyword arguments; the POST is answered.
Invoke(tool_name, kwargs, response) ==
    /\ tool_name \in DOMAIN generated
    /\ last' = [op |-> "invoke", tool |-> tool_name, args |-> kwargs,
                out |-> ToolFunc(url, tool_param_auth, id_token_getters,
                            tool_name, kwargs, response),
                called |-> ToolFuncCalls(tool_param_auth, id_token_getters,
                               tool_name)]
    /\ UNCHANGED <<url, id_token_getters, tool_param_auth, generated, pending, tools, clock,
                   should_close_session, session, teardown, inflight, dicts>>

Next ==
    \/ \E s \in Sources, g \in Getters : DoAddAuthToken(s, g)
    \/ \E t \in ToolNames, a \in AuthTokenArgs, h \in AuthHeaderArgs :
           LoadBegin("load_tool", t, a, h)
    \/ \E a \in AuthTokenArgs, h \in AuthHeaderArgs :
           LoadBegin("load_toolset", "", a, h)
    \/ \E e \in FetchErrors : LoadFail(e)
    \/ \E m \in ToolManifests(ServedLists) :
           pending.op = "load_tool" /\ LoadFinish(m)
    \/ \E m \in ToolsetManifests(ServedLists) :
           pending.op = "load_toolset" /\ LoadFinish(m)
    \/ \E t \in ToolNames, k \in KwargsSet, r \in Responses : Invoke(t, k, r)

Spec == Init /\ [][Next]_vars

(***************************************************************************)
(* SpecExtract: a client that only processes manifests, any manifest of at *)
(* most MaxParams parameters, and records each manifest as fetched and as  *)
(* _process_auth_params left it.                                           *)
(***************************************************************************)
ParamCount(m) ==
    LET RECURSIVE Sum(_)
        Sum(S) == IF S = {} THEN 0
                  ELSE LET t == CHOOSE x \in S : TRUE
                       IN  Len(m[t].parameters) + Sum(S \ {t})
    IN  Sum(DOMAIN m)

ExtractManifests ==
    {m \in ToolsetManifests(ParamLists) : ParamCount(m) <= MaxParams}

\* load_toolset without tokens, from the manifest GET to the tools returned.
Extract(fetched) ==
    /\ LET r == FinishLoad("load_toolset", "", fetched, tool_param_auth,
                    id_token_getters)
       IN  /\ tool_param_auth' = r.tpa
           /\ last' = [op |-> "process_auth_params", tool |-> "", args |-> fetched,
                       out |-> Outcome(r.outcome, <<>>, r.warnings, r.manifest)]
    /\ UNCHANGED <<url, id_token_getters, generated, pending, tools, clock,
                   should_close_session, session, teardown, inflight, dicts>>

NextExtract == \E m \in ExtractManifests : Extract(m)

SpecExtract == Init /\ [][NextExtract]_vars

(***************************************************************************)
(* LangChain SDK: tools.py, class ToolboxTool.  A tool is a value; the     *)
(* variable tools holds the tool values created so far.                    *)
(* bind_params and _find_auth_params have no code in the repository source *)
(* under study and follow the specification's section 4.5 and section 3.   *)
(***************************************************************************)
RECURSIVE FindAuthParams(_, _)
\* _find_auth_params: (auth_params, non_auth_params), order kept.
FindAuthParams(params, acc) ==
    IF params = <<>> THEN acc
    ELSE LET param == Head(params)
         IN  IF Truthy(param.authSources)
             THEN FindAuthParams(Tail(params),
                      [acc EXCEPT !.auth_params = Append(@, param)])
             ELSE FindAuthParams(Tail(params),
                      [acc EXCEPT !.non_auth_params = Append(@, param)])

\* ToolboxTool.__validate_auth: the authenticated parameters none of whose
\* sources has a token.
ParamsMissingAuth(auth_params, auth_tokens) ==
    {auth_params[i].name : i \in
        {j \in 1..Len(auth_params) :
            ~\E k \in 1..Len(auth_params[j].authSources.list) :
                auth_params[j].authSources.list[k] \in DOMAIN auth_tokens}}

MissingAuthWarning(name, missing) ==
    [kind |-> "missing_auth", tool |-> name, params |-> missing]

\* ToolboxTool.__init__: [tool, warnings].
ToolboxToolInit(name, schema, base, auth_tokens) ==
    LET found == FindAuthParams(schema.parameters,
                     [auth_params |-> <<>>, non_auth_params |-> <<>>])
        missing == ParamsMissingAuth(found.auth_params, auth_tokens)
    IN  [tool |-> [name |-> name,
                   schema |-> [schema EXCEPT !.parameters = found.non_auth_params],
                   url |-> base,
                   auth_tokens |-> auth_tokens,
                   auth_params |-> found.auth_params,
                   bound_params |-> EmptyDict],
         warnings |-> IF missing = {} THEN {}
                      ELSE {MissingAuthWarning(name, missing)}]

\* Mutant of CreateCopy: the copy holds the new tokens alone.
CreateCopyNewTokensOnly(self, auth_tokens) ==
    LET made == ToolboxToolInit(self.name, self.schema, self.url, auth_tokens)
    IN  [made EXCEPT !.tool.bound_params = self.bound_params]

\* ToolboxTool.__create_copy: a new tool from this tool's (already
\* filtered) schema and the merged tokens.
CreateCopy(self, auth_tokens) ==
    LET made == ToolboxToolInit(self.name, self.schema, self.url,
                    DictUpdate(self.auth_tokens, auth_tokens))
    IN  [made EXCEPT !.tool.bound_params = self.bound_params]

LCResult(outcome, tool, warnings) ==
    [outcome |-> outcome, tool |-> tool, warnings |-> warnings]

NoTool == [name |-> ""]

\* An error that names things: the sources or parameters it lists.
LCError(outcome, names) ==
    [outcome |-> outcome, tool |-> NoTool, warnings |-> {}, names |-> names]

\* Mutant of AddAuthTokens: a source registered before is registered again.
AddAuthTokensOverwrite(self, auth_tokens) ==
    LET made == CreateCopy(self, auth_tokens)
    IN  LCResult("ok", made.tool, made.warnings)

\* ToolboxTool.add_auth_tokens.
AddAuthTokens(self, auth_tokens) ==
    LET dupe_tokens == {auth_token \in DOMAIN auth_tokens :
                           auth_token \in DOMAIN self.auth_tokens}
    IN  IF dupe_tokens # {}
        THEN LCError("ValueError", dupe_tokens)
        ELSE LET made == CreateCopy(self, auth_tokens)
             IN  LCResult("ok", made.tool, made.warnings)

AuthParamNames(self) == {self.auth_params[i].name : i \in 1..Len(self.auth_params)}

PlainParamNames(self) ==
    {self.schema.parameters[i].name : i \in 1..Len(self.schema.parameters)}

UnknownWarning(name, unknown) ==
    [kind |-> "unknown_param", tool |-> name, params |-> unknown]

\* Mutant of BindParams: authenticated names are not looked at.
BindParamsNoAuthCheck(self, bound_params, strict) ==
    LET unknown == DOMAIN bound_params \ PlainParamNames(self)
    IN  IF DOMAIN bound_params \cap DOMAIN self.bound_params # {}
        THEN LCResult("AlreadyBoundError", NoTool, {})
        ELSE IF unknown # {} /\ strict
        THEN LCResult("UnknownParameterError", NoTool, {})
        ELSE LCResult("ok",
                 [self EXCEPT !.bound_params = DictUpdate(@, bound_params)],
                 IF unknown = {} THEN {} ELSE {UnknownWarning(self.name, unknown)})

\* Mutant of BindParams: a name bound before is bound again.
BindParamsRebind(self, bound_params, strict) ==
    LET unknown == (DOMAIN bound_params \ PlainParamNames(self))
                       \ AuthParamNames(self)
    IN  IF DOMAIN bound_params \cap AuthParamNames(self) # {}
        THEN LCResult("AlreadyAuthenticatedError", NoTool, {})
        ELSE IF unknown # {} /\ strict
        THEN LCResult("UnknownParameterError", NoTool, {})
        ELSE LCResult("ok",
                 [self EXCEPT !.bound_params = DictUpdate(@, bound_params)],
                 IF unknown = {} THEN {} ELSE {UnknownWarning(self.name, unknown)})

\* Mutant of BindParams: strict is not looked at.
BindParamsLenient(self, bound_params, strict) ==
    LET unknown == (DOMAIN bound_params \ PlainParamNames(self))
                       \ AuthParamNames(self)
    IN  IF DOMAIN bound_params \cap AuthParamNames(self) # {}
        THEN LCResult("AlreadyAuthenticatedError", NoTool, {})
        ELSE IF DOMAIN bound_params \cap DOMAIN self.bound_params # {}
        THEN LCResult("AlreadyBoundError", NoTool, {})
        ELSE LCResult("ok",
                 [self EXCEPT !.bound_params = DictUpdate(@, bound_params)],
                 IF unknown = {} THEN {} ELSE {UnknownWarning(self.name, unknown)})

\* bind_params(bound_params, strict): a new tool with the bindings added,
\* or one of the three binding errors and no tool.
BindParams(self, bound_params, strict) ==
    LET unknown == (DOMAIN bound_params \ PlainParamNames(self))
                       \ AuthParamNames(self)
    IN  IF DOMAIN bound_params \cap AuthParamNames(self) # {}
        THEN LCResult("AlreadyAuthenticatedError", NoTool, {})
        ELSE IF DOMAIN bound_params \cap DOMAIN self.bound_params # {}
        THEN LCResult("AlreadyBoundError", NoTool, {})
        ELSE IF unknown # {} /\ strict
        THEN LCResult("UnknownParameterError", NoTool, {})
        ELSE LCResult("ok",
                 [self EXCEPT !.bound_params = DictUpdate(@, bound_params)],
                 IF unknown = {} THEN {} ELSE {UnknownWarning(self.name, unknown)})

(***************************************************************************)
(* SpecLC: LangChain tools are loaded, given tokens and bound.             *)
(***************************************************************************)
BindNames == ParamNames \cup {"p3"}      \* p3 is in no manifest
BindValues == {"int:7", "fn:now"}        \* a literal and a callable

BindArgs ==
    {b \in UNION {[K -> BindValues] : K \in SUBSET BindNames} :
        Cardinality(DOMAIN b) <= MaxBind}

LCAuthTokenArgs == {EmptyDict} \cup [{"s1"} -> {"g1"}]

\* Every auth_tokens mapping over the sources.
TokenDicts == UNION {[S -> Getters] : S \in SUBSET Sources}

\* Mutant of LCStep: the tool that was made takes the place of the tool it
\* was made from.
LCStepInPlace(op, self, r) ==
    /\ r.tool # NoTool => Cardinality(tools \cup {r.tool}) <= MaxTools
    /\ tools' = IF r.tool = NoTool THEN tools ELSE (tools \ {self}) \cup {r.tool}
    /\ last' = [op |-> op, tool |-> self, args |-> EmptyDict,
                out |-> Outcome(r.outcome, <<>>, r.warnings, r.tool)]
    /\ UNCHANGED <<url, id_token_getters, tool_param_auth, generated, pending, clock,
                   should_close_session, session, teardown, inflight, dicts>>

\* One step on tool objects: the result is recorded and a tool that was
\* made joins tools.
LCStep(op, self, r) ==
    /\ r.tool # NoTool => Cardinality(tools \cup {r.tool}) <= MaxTools
    /\ tools' = IF r.tool = NoTool THEN tools ELSE tools \cup {r.tool}
    /\ last' = [op |-> op, tool |-> self, args |-> EmptyDict,
                out |-> Outcome(r.outcome, <<>>, r.warnings, r.tool)]
    /\ UNCHANGED <<url, id_token_getters, tool_param_auth, generated, pending, clock,
                   should_close_session, session, teardown, inflight, dicts>>

\* ToolboxClient.load_tool of the LangChain SDK, manifest already fetched.
LCLoadTool(tool_name, schema, auth_tokens) ==
    LET made == ToolboxToolInit(tool_name, schema, url, auth_tokens)
    IN  LCStep("lc_load_tool", NoTool, LCResult("ok", made.tool, made.warnings))

LCAddAuthTokens(self, auth_tokens) ==
    LCStep("add_auth_tokens", self, AddAuthTokens(self, auth_tokens))

LCBindParams(self, bound_params, strict) ==
    LCStep("bind_params", self, BindParams(self, bound_params, strict))

NextLC ==
    \/ \E l \in ServedLists, a \in LCAuthTokenArgs :
           LCLoadTool("t1", ToolSchema(l), a)
    \/ \E self \in tools, a \in LCAuthTokenArgs \ {EmptyDict} :
           LCAddAuthTokens(self, a)
    \/ \E self \in tools, b \in BindArgs, strict \in BOOLEAN :
           LCBindParams(self, b, strict)

SpecLC == Init /\ [][NextLC]_vars

(***************************************************************************)
(* LangChain SDK: invoking a ToolboxTool.  The tool's coroutine is         *)
(* __tool_func (tools.py); the input model is the one _schema_to_model     *)
(* builds.  Bound parameters are not in the repository source under study: *)
(* the duplicate check and the merge follow the specification's section    *)
(* 4.5, steps 1 and 2.                                                     *)
(***************************************************************************)
Digits == <<"0", "1", "2", "3", "4", "5", "6", "7", "8", "9">>

\* What the bound function "fn:now" returns when called at time c.
ClockValue(c) == "int:" \o Digits[c + 1]

\* A bound value at invocation: a function is called, a literal is itself.
Evaluate(value) == IF value = "fn:now" THEN ClockValue(clock) ELSE value

\* Mutant of MergeBound: a bound function is sent with its first value.
MergeBoundFrozen(tool_input, bound_params) ==
    DictUpdate(tool_input,
        [k \in DOMAIN bound_params |->
            IF bound_params[k] = "fn:now" THEN ClockValue(0) ELSE bound_params[k]])

\* Step 2 of invoke: the bound parameters, evaluated, join the arguments.
MergeBound(tool_input, bound_params) ==
    DictUpdate(tool_input,
        [k \in DOMAIN bound_params |-> Evaluate(bound_params[k])])

\* _parse_type under Optional: the values a field of the type accepts.
TypeAccepts(type, value) ==
    \/ value = "none"
    \/ type = "string" /\ StartsWith(value, "str:")
    \/ type = "integer" /\ StartsWith(value, "int:")

\* Mutant of ValidationErrors: a field left out is not an error.
ValidationErrorsNotRequired(params, args) ==
    {[loc |-> params[i].name, type |-> params[i].type \o "_type"] :
        i \in {j \in 1..Len(params) :
                  /\ params[j].name \in DOMAIN args
                  /\ ~TypeAccepts(params[j].type, args[params[j].name])}}

\* Validation against the model _schema_to_model builds: every declared
\* field is required and takes None or a value of its type; one error
\* entry per offending field.
ValidationErrors(params, args) ==
    {[loc |-> params[i].name, type |-> "missing"] :
        i \in {j \in 1..Len(params) : params[j].name \notin DOMAIN args}}
    \cup
    {[loc |-> params[i].name, type |-> params[i].type \o "_type"] :
        i \in {j \in 1..Len(params) :
                  /\ params[j].name \in DOMAIN args
                  /\ ~TypeAccepts(params[j].type, args[params[j].name])}}

\* Mutant of LCToolFunc: the tokens are not checked before the POST.
LCToolFuncUnchecked(self, kwargs, response) ==
    InvokeTool(self.url, self.name, kwargs, self.auth_tokens, response)

\* ToolboxTool.__tool_func: the strict auth check, then _invoke_tool.
LCToolFunc(self, kwargs, response) ==
    IF ParamsMissingAuth(self.auth_params, self.auth_tokens) # {}
    THEN Outcome("PermissionError", <<>>, {}, "none")
    ELSE InvokeTool(self.url, self.name, kwargs, self.auth_tokens, response)

\* Mutant of Ainvoke: a bound name given again by the caller is merged over.
AinvokeNoDuplicateCheck(self, tool_input, response) ==
    LET merged == MergeBound(tool_input, self.bound_params)
        errors == ValidationErrors(self.schema.parameters, merged)
    IN  IF errors # {}
        THEN Outcome("ValidationError", <<>>, {}, errors)
        ELSE LCToolFunc(self, merged, response)

\* Mutant of Ainvoke: the merged arguments are validated, the caller's alone
\* are sent.
AinvokeBoundNotSent(self, tool_input, response) ==
    IF DOMAIN tool_input \cap DOMAIN self.bound_params # {}
    THEN Outcome("DuplicateArgumentError", <<>>, {}, "none")
    ELSE LET merged == MergeBound(tool_input, self.bound_params)
             errors == ValidationErrors(self.schema.parameters, merged)
         IN  IF errors # {}
             THEN Outcome("ValidationError", <<>>, {}, errors)
             ELSE LCToolFunc(self, tool_input, response)

\* invoke with the auth check moved in front of validation.
AinvokeAuthFirst(self, tool_input, response) ==
    IF DOMAIN tool_input \cap DOMAIN self.bound_params # {}
    THEN Outcome("DuplicateArgumentError", <<>>, {}, "none")
    ELSE LET merged == MergeBound(tool_input, self.bound_params)
             errors == ValidationErrors(self.schema.parameters, merged)
             checked == LCToolFunc(self, merged, response)
         IN  IF checked.outcome = "PermissionError" THEN checked
             ELSE IF errors # {}
             THEN Outcome("ValidationError", <<>>, {}, errors)
             ELSE checked

\* invoke(tool, callerArgs): duplicate check, merge, validation, then the
\* tool's coroutine.
Ainvoke(self, tool_input, response) ==
    IF DOMAIN tool_input \cap DOMAIN self.bound_params # {}
    THEN Outcome("DuplicateArgumentError", <<>>, {}, "none")
    ELSE LET merged == MergeBound(tool_input, self.bound_params)
             errors == ValidationErrors(self.schema.parameters, merged)
         IN  IF errors # {}
             THEN Outcome("ValidationError", <<>>, {}, errors)
             ELSE LCToolFunc(self, merged, response)

(***************************************************************************)
(* SpecCall: LangChain tools are loaded, bound and invoked while the       *)
(* value of the bound function changes.                                    *)
(***************************************************************************)
CallValues == {"none", "int:5", "str:x"}

CallArgs ==
    UNION {[S -> CallValues] :
              S \in {T \in SUBSET ParamNames : Cardinality(T) <= MaxArgs}}

\* The bindings made before an invocation: parameters of the manifests.
CallBindArgs == {b \in BindArgs : DOMAIN b \subseteq ParamNames}

\* The environment moves on: the bound function returns another value.
Tick ==
    /\ clock < MaxClock
    /\ clock' = clock + 1
    /\ UNCHANGED <<url, id_token_getters, tool_param_auth, generated, pending,
                   tools, last, should_close_session, session, teardown,
                   inflight, dicts>>

\* A tool is invoked at time clock and the POST, if one is made, is answered.
LCInvoke(self, tool_input, response) ==
    /\ last' = [op |-> "ainvoke", tool |-> self, args |-> tool_input,
                at |-> clock, out |-> Ainvoke(self, tool_input, response)]
    /\ UNCHANGED <<url, id_token_getters, tool_param_auth, generated, pending,
                   tools, clock, should_close_session, session, teardown,
                   inflight, dicts>>

\* One tool is loaded; its copies are made by bind_params.
NextCall ==
    \/ \E l \in ServedLists, a \in LCAuthTokenArgs :
           /\ tools = {}
           /\ LCLoadTool("t1", ToolSchema(l), a)
    \/ \E self \in tools, b \in CallBindArgs :
           /\ LCBindParams(self, b, TRUE)
           /\ Cardinality(tools') <= MaxCallTools
    \/ Tick
    \/ \E self \in tools, a \in CallArgs, r \in Responses :
           LCInvoke(self, a, r)

SpecCall == Init /\ [][NextCall]_vars

(***************************************************************************)
(* SpecSingle: the single-key forms of a LangChain tool, applied to the    *)
(* loaded tool or to the tool the previous call returned.                  *)
(***************************************************************************)
\* Mutant of ToolAddAuthToken: the source is registered without a look at
\* the tokens the tool holds.
ToolAddAuthTokenAnyway(self, auth_source, get_id_token) ==
    LET made == CreateCopy(self, [x \in {auth_source} |-> get_id_token])
    IN  LCResult("ok", made.tool, made.warnings)

\* ToolboxTool.add_auth_token
ToolAddAuthToken(self, auth_source, get_id_token) ==
    AddAuthTokens(self, [x \in {auth_source} |-> get_id_token])

\* bind_param(param_name, param_value, strict)
BindParam(self, param_name, param_value, strict) ==
    BindParams(self, [x \in {param_name} |-> param_value], strict)

SingleOps == {"tool.add_auth_token", "tool.bind_param"}

\* The tools the caller holds: the loaded one and the one just returned.
Held ==
    tools \cup (IF last.op \in SingleOps /\ last.ret.outcome = "ok"
                THEN {last.ret.tool} ELSE {})

SingleStep(op, self, args, r) ==
    /\ last' = [op |-> op, tool |-> self, args |-> args, ret |-> r,
                out |-> Outcome(r.outcome, <<>>, r.warnings, r.tool)]
    /\ UNCHANGED <<url, id_token_getters, tool_param_auth, generated, pending,
                   tools, clock, should_close_session, session, teardown,
                   inflight, dicts>>

SingleAddAuthToken(self, auth_source, get_id_token) ==
    SingleStep("tool.add_auth_token", self,
        [auth_source |-> auth_source, get_id_token |-> get_id_token],
        ToolAddAuthToken(self, auth_source, get_id_token))

SingleBindParam(self, param_name, param_value, strict) ==
    SingleStep("tool.bind_param", self,
        [param_name |-> param_name, param_value |-> param_value,
         strict |-> strict],
        BindParam(self, param_name, param_value, strict))

NextSingle ==
    \/ \E l \in ServedLists, a \in LCAuthTokenArgs :
           /\ tools = {}
           /\ LCLoadTool("t1", ToolSchema(l), a)
    \/ \E self \in Held, s \in Sources, g \in Getters :
           SingleAddAuthToken(self, s, g)
    \/ \E self \in Held, n \in BindNames, v \in BindValues, strict \in BOOLEAN :
           SingleBindParam(self, n, v, strict)

SpecSingle == Init /\ [][NextSingle]_vars

(***************************************************************************)
(* SpecTypes: _schema_to_model parses the type name of every field of a    *)
(* schema with _parse_type.                                                *)
(***************************************************************************)
TypeNames ==
    {"string", "integer", "number", "boolean", "array",
     "float", "object", "String", "int", ""}

Unsupported == [ok |-> FALSE, type |-> "ValueError"]
Parsed(t) == [ok |-> TRUE, type |-> t]

\* Mutant of ParseType: the floating point type is named float.
ParseTypeFloat(type_) ==
    IF type_ = "string" THEN Parsed("str")
    ELSE IF type_ = "integer" THEN Parsed("int")
    ELSE IF type_ = "float" THEN Parsed("float")
    ELSE IF type_ = "boolean" THEN Parsed("bool")
    ELSE IF type_ = "array" THEN Parsed("list")
    ELSE Unsupported

\* _parse_type
ParseType(type_) ==
    IF type_ = "string" THEN Parsed("str")
    ELSE IF type_ = "integer" THEN Parsed("int")
    ELSE IF type_ = "number" THEN Parsed("float")
    ELSE IF type_ = "boolean" THEN Parsed("bool")
    ELSE IF type_ = "array" THEN Parsed("list")
    ELSE Unsupported

\* The loop of _schema_to_model: the field types in order, or the
\* ValueError of the first type name _parse_type refuses.
RECURSIVE FieldTypes(_, _)
FieldTypes(types, acc) ==
    IF types = <<>> THEN Outcome("ok", <<>>, {}, acc)
    ELSE LET p == ParseType(Head(types))
         IN  IF ~p.ok THEN Outcome(p.type, <<>>, {}, "none")
             ELSE FieldTypes(Tail(types), Append(acc, p.type))

Schemas == UNION {[1..n -> TypeNames] : n \in 0..MaxFields}

\* _schema_to_model on a schema whose fields have the given type names.
ParseSchema(types) ==
    /\ last' = [op |-> "schema_to_model", tool |-> "", args |-> types,
                out |-> FieldTypes(types, <<>>)]
    /\ UNCHANGED <<url, id_token_getters, tool_param_auth, generated, pending,
                   tools, clock, should_close_session, session, teardown,
                   inflight, dicts>>

NextTypes == \E types \in Schemas : ParseSchema(types)

SpecTypes == Init /\ [][NextTypes]_vars

(***************************************************************************)
(* SpecConc: invocations of LangChain tools overlap.  An invocation runs   *)
(* without suspension up to its POST; the response arrives, or the task is *)
(* cancelled, in a later step.                                             *)
(***************************************************************************)
ConcBindArgs == [{"p2"} -> BindValues]

\* The invocation up to the await of session.post.
UpToPost(self, tool_input) ==
    Ainvoke(self, tool_input, [ok |-> TRUE, json |-> "none"])

\* The frame of a suspended invocation: what it was called with and the
\* request it made.
Call(self, tool_input, o) ==
    [tool |-> self, args |-> tool_input, at |-> clock,
     request |-> o.requests[1], warnings |-> o.warnings]

Ended(c, o) ==
    [op |-> "ainvoke", tool |-> c.tool, args |-> c.args, at |-> c.at, out |-> o]

\* Mutant of BeginInvoke: the caller's arguments are kept on the tool as
\* bound parameters.
BeginInvokeBinds(self, tool_input) ==
    LET o == UpToPost(self, tool_input)
    IN  /\ Cardinality(inflight) < MaxCalls
        /\ IF o.requests = <<>>
           THEN /\ last' = [op |-> "ainvoke", tool |-> self, args |-> tool_input,
                            at |-> clock, out |-> o]
                /\ UNCHANGED <<inflight, tools, dicts>>
           ELSE /\ inflight' = inflight \cup {Call(self, tool_input, o)}
                /\ tools' = (tools \ {self}) \cup
                      {[self EXCEPT !.bound_params = DictUpdate(@, tool_input)]}
                /\ UNCHANGED last
        /\ UNCHANGED <<url, id_token_getters, tool_param_auth, generated, pending,
                       clock, should_close_session, session, teardown, dicts>>

\* Mutant of BeginInvoke: the request body is one object shared by the
\* invocations of a tool, so a new call writes over the bodies in flight.
BeginInvokeSharedBody(self, tool_input) ==
    LET o == UpToPost(self, tool_input)
    IN  /\ Cardinality(inflight) < MaxCalls
        /\ IF o.requests = <<>>
           THEN /\ last' = [op |-> "ainvoke", tool |-> self, args |-> tool_input,
                            at |-> clock, out |-> o]
                /\ UNCHANGED inflight
           ELSE /\ inflight' =
                      {IF c.tool = self
                       THEN [c EXCEPT !.request.json = o.requests[1].json]
                       ELSE c : c \in inflight}
                      \cup {Call(self, tool_input, o)}
                /\ UNCHANGED last
        /\ UNCHANGED <<url, id_token_getters, tool_param_auth, generated, pending,
                       tools, clock, should_close_session, session, teardown,
                       dicts>>

\* A tool is invoked: the checks, the merge and the POST.  An invocation
\* that fails before its POST ends here.
BeginInvoke(self, tool_input) ==
    LET o == UpToPost(self, tool_input)
    IN  /\ Cardinality(inflight) < MaxCalls
        /\ IF o.requests = <<>>
           THEN /\ last' = [op |-> "ainvoke", tool |-> self, args |-> tool_input,
                            at |-> clock, out |-> o]
                /\ UNCHANGED inflight
           ELSE /\ inflight' = inflight \cup {Call(self, tool_input, o)}
                /\ UNCHANGED last
        /\ UNCHANGED <<url, id_token_getters, tool_param_auth, generated, pending,
                       tools, clock, should_close_session, session, teardown,
                       dicts>>

\* The response of a POST arrives: raise_for_status, then the JSON body.
Respond(c, response) ==
    /\ c \in inflight
    /\ inflight' = inflight \ {c}
    /\ last' = Ended(c, IF response.ok
                        THEN Outcome("ok", <<c.request>>, c.warnings, response.json)
                        ELSE Outcome("ClientResponseError", <<c.request>>,
                                     c.warnings, "none"))
    /\ UNCHANGED <<url, id_token_getters, tool_param_auth, generated, pending,
                   tools, clock, should_close_session, session, teardown,
                   dicts>>

\* The task of an invocation is cancelled while it awaits the response.
Cancel(c) ==
    /\ c \in inflight
    /\ inflight' = inflight \ {c}
    /\ last' = Ended(c, Outcome("CancelledError", <<c.request>>, c.warnings, "none"))
    /\ UNCHANGED <<url, id_token_getters, tool_param_auth, generated, pending,
                   tools, clock, should_close_session, session, teardown,
                   dicts>>

NextConc ==
    \/ \E l \in ServedLists, a \in LCAuthTokenArgs :
           /\ tools = {}
           /\ LCLoadTool("t1", ToolSchema(l), a)
    \/ \E self \in tools, b \in ConcBindArgs :
           /\ self.bound_params = EmptyDict
           /\ LCBindParams(self, b, TRUE)
    \/ \E self \in tools, a \in CallArgs : BeginInvoke(self, a)
    \/ \E c \in inflight, r \in Responses : Respond(c, r)
    \/ \E c \in inflight : Cancel(c)

SpecConc == Init /\ [][NextConc]_vars

(***************************************************************************)
(* SpecInvoke: _invoke_tool called on any base URL with any registry.      *)
(***************************************************************************)
Urls == {"http://h", "https://h"}

InitUrl ==
    /\ url \in Urls
    /\ id_token_getters = EmptyDict
    /\ tool_param_auth = EmptyDict
    /\ generated = EmptyDict
    /\ pending = NoLoad
    /\ tools = {}
    /\ clock = 0
    /\ dicts = <<>>
    /\ inflight = {}
    /\ teardown = Alive
    /\ session = NewSession
    /\ should_close_session = TRUE
    /\ last = Idle

\* _invoke_tool is called and the POST is answered.
CallInvokeTool(tool_name, data, response) ==
    /\ last' = [op |-> "invoke_tool", tool |-> tool_name, args |-> data,
                data_after |-> InputAfterConvert(data),
                out |-> InvokeTool(url, tool_name, data, id_token_getters,
                            response)]
    /\ UNCHANGED <<url, id_token_getters, tool_param_auth, generated, pending,
                   tools, clock, should_close_session, session, teardown,
                   inflight, dicts>>

NextInvoke ==
    \/ \E s \in Sources, g \in Getters : DoAddAuthToken(s, g)
    \/ \E t \in ToolNames, k \in KwargsSet, r \in Responses :
           CallInvokeTool(t, k, r)

SpecInvoke == InitUrl /\ [][NextInvoke]_vars

(***************************************************************************)
(* SpecClose: the life of one client, constructed with or without a        *)
(* session, closed any number of times and then finalised.                 *)
(***************************************************************************)
\* Mutant of ClientClose: the session is closed whoever made it.
ClientCloseAny(s, should_close) == [s EXCEPT !.closes = @ + 1]

\* ToolboxClient.close: the session is closed if the client made it.
ClientClose(s, should_close) ==
    IF should_close THEN [s EXCEPT !.closes = @ + 1] ELSE s

\* What __del__ can find: a running loop (close() becomes a task), a loop
\* that is not running (close() is run to its end), or no usable loop (the
\* exception is passed over).
Loops == {"running", "stopped", "error"}

InitClose ==
    /\ url = BaseUrl
    /\ id_token_getters = EmptyDict
    /\ tool_param_auth = EmptyDict
    /\ generated = EmptyDict
    /\ pending = NoLoad
    /\ tools = {}
    /\ clock = 0
    /\ dicts = <<>>
    /\ inflight = {}
    /\ should_close_session \in BOOLEAN
    /\ session = NewSession
    /\ teardown = Alive
    /\ last = Idle

LifeStep(op, s, t) ==
    /\ session' = s
    /\ teardown' = t
    /\ last' = [op |-> op, tool |-> "", args |-> EmptyDict,
                out |-> Outcome("ok", <<>>, {}, "none")]
    /\ UNCHANGED <<url, id_token_getters, tool_param_auth, generated, pending,
                   tools, clock, should_close_session, inflight, dicts>>

\* await client.close()
Close ==
    /\ teardown.del = "live"
    /\ teardown.calls < MaxClose
    /\ LifeStep("close", ClientClose(session, should_close_session),
                [teardown EXCEPT !.calls = @ + 1])

\* The client is garbage collected.
Del(loop) ==
    /\ teardown.del = "live"
    /\ CASE loop = "running" ->
                LifeStep("del", session, [teardown EXCEPT !.del = "task"])
         [] loop = "stopped" ->
                LifeStep("del", ClientClose(session, should_close_session),
                         [teardown EXCEPT !.del = "gone"])
         [] OTHER ->
                LifeStep("del", session, [teardown EXCEPT !.del = "gone"])

\* The task __del__ created runs.
CloseTask ==
    /\ teardown.del = "task"
    /\ LifeStep("close_task", ClientClose(session, should_close_session),
                [teardown EXCEPT !.del = "gone"])

\* The loop ends before the task __del__ created has run.
LoopEnds ==
    /\ teardown.del = "task"
    /\ LifeStep("loop_ends", session, [teardown EXCEPT !.del = "gone"])

\* Registration on a client in use.
Register ==
    /\ teardown.del = "live"
    /\ \E s \in Sources, g \in Getters : DoAddAuthToken(s, g)

NextClose ==
    \/ Register
    \/ Close
    \/ \E loop \in Loops : Del(loop)
    \/ CloseTask
    \/ LoopEnds

SpecClose == InitClose /\ [][NextClose]_vars

(***************************************************************************)
(* SpecLoad: one caller at a time.  Each load runs from its call to its    *)
(* return or its exception with nothing in between.                        *)
(***************************************************************************)
\* What a manifest GET ended in: one of FetchErrors, or one of manifests.
Fetches(manifests) ==
    [ok : {FALSE}, error : FetchErrors, manifest : {EmptyDict}]
    \cup [ok : {TRUE}, error : {""}, manifest : manifests]

\* load_tool / load_toolset as one call that got the answer get.
Load(op, tool_name, auth_tokens, auth_headers, get) ==
    LET r == ResolveAuthTokens(auth_tokens, auth_headers)
        getters == RegisterAll(id_token_getters, r.tokens)
    IN  /\ pending = NoLoad
        /\ id_token_getters' = getters
        /\ IF ~get.ok
           THEN /\ last' = [op |-> op, tool |-> tool_name, args |-> r.tokens,
                            out |-> Outcome(get.error, <<>>, r.warnings, "none")]
                /\ UNCHANGED <<tool_param_auth, generated, inflight, dicts>>
           ELSE LET f == FinishLoad(op, tool_name, get.manifest, tool_param_auth,
                             getters)
                IN  /\ tool_param_auth' = f.tpa
                    /\ generated' =
                          DictUpdate(generated,
                              [t \in DOMAIN f.returned |->
                                  [warned |-> AuthWarning(t) \in f.warnings]])
                    /\ last' = [op |-> op, tool |-> tool_name, args |-> r.tokens,
                                out |-> Outcome(f.outcome, <<>>,
                                            r.warnings \cup f.warnings,
                                            DOMAIN f.returned)]
        /\ UNCHANGED <<url, pending, tools, clock, should_close_session,
                       session, teardown, inflight, dicts>>

NextLoad ==
    \/ \E t \in ToolNames, a \in AuthTokenArgs, h \in AuthHeaderArgs,
          m \in Fetches(ToolManifests(ServedLists)) :
           Load("load_tool", t, a, h, m)
    \/ \E a \in AuthTokenArgs, h \in AuthHeaderArgs,
          m \in Fetches(ToolManifests(ServedLists)) :
           Load("load_toolset", "", a, h, m)

SpecLoad == Init /\ [][NextLoad]_vars

(***************************************************************************)
(* SpecToolset: the LangChain tools of one load_toolset call.  Each tool   *)
(* refers to a dict object for its _auth_tokens; dicts holds the objects   *)
(* and a tool is held with the index of the object it refers to.           *)
(***************************************************************************)
MaxDicts == 3

\* The tool as it reads its _auth_tokens now.
Deref(h) == [h.tool EXCEPT !.auth_tokens = dicts[h.ref]]

\* Mutant of NewDict: the dict the tool refers to is updated.
NewDictInPlace(objs, ref, merged) ==
    [dicts |-> [objs EXCEPT ![ref] = merged], ref |-> ref]

\* {**self._auth_tokens, **auth_tokens} in __create_copy: a new dict
\* object; the one the tool refers to is read, not written.
NewDict(objs, ref, merged) ==
    [dicts |-> Append(objs, merged), ref |-> Len(objs) + 1]

\* ToolboxClient.load_toolset of the LangChain SDK, manifest already
\* fetched: every tool is constructed with the one auth_tokens object.
LCLoadToolset(manifest, auth_tokens) ==
    LET made == [t \in DOMAIN manifest |->
                    ToolboxToolInit(t, manifest[t], url, auth_tokens)]
    IN  /\ tools = {}
        /\ manifest # EmptyDict
        /\ dicts' = <<auth_tokens>>
        /\ tools' = {[tool |-> made[t].tool, ref |-> 1] : t \in DOMAIN manifest}
        /\ last' = [op |-> "lc_load_toolset", tool |-> NoTool, args |-> auth_tokens,
                    out |-> Outcome("ok", <<>>,
                               UNION {made[t].warnings : t \in DOMAIN manifest},
                               DOMAIN manifest)]
        /\ UNCHANGED <<url, id_token_getters, tool_param_auth, generated, pending,
                       clock, should_close_session, session, teardown, inflight>>

\* add_auth_tokens on a held tool: the tool returned refers to the dict
\* __create_copy made.
ToolsetAddAuthTokens(h, auth_tokens) ==
    LET r == AddAuthTokens(Deref(h), auth_tokens)
        made == NewDict(dicts, h.ref, r.tool.auth_tokens)
    IN  /\ h \in tools
        /\ IF r.outcome = "ok"
           THEN /\ Len(dicts) < MaxDicts
                /\ dicts' = made.dicts
                /\ tools' = tools \cup {[tool |-> r.tool, ref |-> made.ref]}
           ELSE UNCHANGED <<dicts, tools>>
        /\ last' = [op |-> "toolset.add_auth_tokens", tool |-> h,
                    args |-> auth_tokens,
                    out |-> Outcome(r.outcome, <<>>, r.warnings, "none")]
        /\ UNCHANGED <<url, id_token_getters, tool_param_auth, generated, pending,
                       clock, should_close_session, session, teardown, inflight>>

\* A held tool's coroutine is called and the POST is answered.
ToolsetInvoke(h, kwargs, response) ==
    /\ h \in tools
    /\ last' = [op |-> "toolset.invoke", tool |-> h, args |-> kwargs,
                out |-> LCToolFunc(Deref(h), kwargs, response)]
    /\ UNCHANGED <<url, id_token_getters, tool_param_auth, generated, pending,
                   tools, clock, should_close_session, session, teardown,
                   inflight, dicts>>

\* The argument of add_auth_tokens: one source and its getter.
ToolsetTokenArgs == {[x \in {s} |-> "g1"] : s \in Sources}

NextToolset ==
    \/ \E m \in ToolsetManifests(ServedLists), a \in LCAuthTokenArgs :
           LCLoadToolset(m, a)
    \/ \E h \in tools, a \in ToolsetTokenArgs :
           ToolsetAddAuthTokens(h, a)
    \/ \E h \in tools, r \in Responses : ToolsetInvoke(h, EmptyDict, r)

SpecToolset == Init /\ [][NextToolset]_vars

(***************************************************************************)
(* SpecRace: a first tool is loaded and its invocations overlap with       *)
(* registrations.  An invocation is taken in three steps: the auth check,  *)
(* the construction of the headers with the POST, and the response.  Tasks *)
(* of one event loop switch at the await of the POST only; a registration  *)
(* from another thread may also fall between the first two steps, and the  *)
(* steps are kept apart so that it can.                                    *)
(***************************************************************************)
NoRequest == [url |-> "", json |-> EmptyDict, headers |-> EmptyDict]

\* _tool_func up to the auth check: PermissionError, or the task goes on
\* with the requirements it was checked against.
RaceCheck(tool_name) ==
    /\ tool_name \in DOMAIN generated
    /\ Cardinality(inflight) < MaxCalls
    /\ IF ~ValidateAuth(tool_param_auth, id_token_getters, tool_name)
       THEN /\ last' = [op |-> "invoke", tool |-> tool_name, args |-> EmptyDict,
                        out |-> Outcome("PermissionError", <<>>, {}, "none")]
            /\ UNCHANGED inflight
       ELSE /\ inflight' = inflight \cup
                   {[tool |-> tool_name, pos |-> "checked",
                     required |-> IF tool_name \in DOMAIN tool_param_auth
                                  THEN tool_param_auth[tool_name] ELSE EmptyDict,
                     request |-> NoRequest, warnings |-> {}]}
            /\ UNCHANGED last
    /\ UNCHANGED <<url, id_token_getters, tool_param_auth, generated, pending,
                   tools, clock, should_close_session, session, teardown, dicts>>

\* _invoke_tool up to the await of the POST: the headers are built from
\* the registry as it is now.
RacePost(c) ==
    /\ c \in inflight /\ c.pos = "checked"
    /\ LET o == InvokeTool(url, c.tool, EmptyDict, id_token_getters,
                    [ok |-> TRUE, json |-> "none"])
       IN  inflight' = (inflight \ {c}) \cup
               {[c EXCEPT !.pos = "posted", !.request = o.requests[1],
                          !.warnings = o.warnings]}
    /\ UNCHANGED <<url, id_token_getters, tool_param_auth, generated, pending,
                   tools, clock, should_close_session, session, teardown, dicts,
                   last>>

\* The response of the POST arrives.
RaceRespond(c, response) ==
    /\ c \in inflight /\ c.pos = "posted"
    /\ inflight' = inflight \ {c}
    /\ last' = [op |-> "invoke", tool |-> c.tool, args |-> EmptyDict,
                out |-> IF response.ok
                        THEN Outcome("ok", <<c.request>>, c.warnings, response.json)
                        ELSE Outcome("ClientResponseError", <<c.request>>,
                                     c.warnings, "none")]
    /\ UNCHANGED <<url, id_token_getters, tool_param_auth, generated, pending,
                   tools, clock, should_close_session, session, teardown, dicts>>

NextRace ==
    \/ \E s \in Sources, g \in Getters : DoAddAuthToken(s, g)
    \/ \E t \in ToolNames, m \in Fetches(ToolManifests(ServedLists)) :
           /\ generated = EmptyDict
           /\ Load("load_tool", t, EmptyDict, EmptyDict, m)
    \/ \E t \in ToolNames : RaceCheck(t)
    \/ \E c \in inflight : RacePost(c)
    \/ \E c \in inflight, r \in Responses : RaceRespond(c, r)

SpecRace == Init /\ [][NextRace]_vars

(***************************************************************************)
(* SpecGetter: _invoke_tool with a registry that may hold a getter that    *)
(* raises when it is called.                                               *)
(***************************************************************************)
\* A getter whose call raises, and what it raises.
RaisingGetter == "g3"
GetterError == "GetterError"

Raises(getters) == \E s \in DOMAIN getters : getters[s] = RaisingGetter

\* The getters of the map that return.
Returning(getters) ==
    [s \in {x \in DOMAIN getters : getters[x] # RaisingGetter} |-> getters[s]]

\* Mutant of InvokeToolOrRaise: a getter that raises gives no header.
InvokeToolSkipRaising(base, tool_name, data, getters, response) ==
    InvokeTool(base, tool_name, data, Returning(getters), response)

\* _invoke_tool: get_id_token() is called inside _get_auth_headers, before
\* the warning and before session.post, and nothing catches what it raises.
InvokeToolOrRaise(base, tool_name, data, getters, response) ==
    IF Raises(getters)
    THEN Outcome(GetterError, <<>>, {}, "none")
    ELSE InvokeTool(base, tool_name, data, getters, response)

\* _invoke_tool is called with the client's registry and the POST, if it
\* comes to one, is answered.
CallInvokeToolOrRaise(tool_name, data, response) ==
    /\ last' = [op |-> "invoke_tool", tool |-> tool_name, args |-> data,
                out |-> InvokeToolOrRaise(url, tool_name, data, id_token_getters,
                            response)]
    /\ UNCHANGED <<url, id_token_getters, tool_param_auth, generated, pending,
                   tools, clock, should_close_session, session, teardown,
                   inflight, dicts>>

NextGetter ==
    \/ \E s \in Sources, g \in Getters \cup {RaisingGetter} : DoAddAuthToken(s, g)
    \/ \E t \in ToolNames, k \in KwargsSet, r \in Responses :
           CallInvokeToolOrRaise(t, k, r)

SpecGetter == Init /\ [][NextGetter]_vars

(***************************************************************************)
(* Properties of the LlamaIndex client (checked under Spec).               *)
(***************************************************************************)
IsLoad(op) == op \in {"load_tool", "load_toolset"}

Posted == last.op = "invoke" /\ last.out.requests # <<>>

\* The satisfaction of a tool's requirements, as the specification words it.
Satisfied(tpa, registered, tool_name) ==
    \/ tool_name \notin DOMAIN tpa
    \/ \A param \in DOMAIN tpa[tool_name] :
          \E i \in 1..Len(tpa[tool_name][param]) :
              tpa[tool_name][param][i] \in registered

SatisfiedNow(tool_name) ==
    Satisfied(tool_param_auth, DOMAIN id_token_getters, tool_name)

Reverse(l) == [i \in 1..Len(l) |-> l[Len(l) + 1 - i]]

SourcesReversed(tpa) ==
    [t \in DOMAIN tpa |-> [param \in DOMAIN tpa[t] |-> Reverse(tpa[t][param])]]

\* The sources some required parameter of the tool accepts.
RequiredSources(tool_name) ==
    IF tool_name \notin DOMAIN tool_param_auth THEN {}
    ELSE UNION {{tool_param_auth[tool_name][param][i] :
                    i \in 1..Len(tool_param_auth[tool_name][param])} :
                param \in DOMAIN tool_param_auth[tool_name]}

\* C1: an invocation of a tool whose authentication requirements are
\* unsatisfied ends in PermissionError and issues no POST.
C1_NoPostWhenUnsatisfied ==
    (last.op = "invoke" /\ ~SatisfiedNow(last.tool))
        => /\ last.out.outcome = "PermissionError"
           /\ Len(last.out.requests) = 0

C1_Witness ==
    /\ last.op = "invoke"
    /\ ~SatisfiedNow(last.tool)
    /\ last.out.outcome = "PermissionError"
    /\ id_token_getters # EmptyDict

\* C2: _validate_auth is true exactly when the tool has no entry in the
\* requirement map or every required parameter has an acceptable source
\* that is registered, and reversing the source lists does not change it.
C2_ValidateAuthMeaning ==
    \A t \in ToolNames :
        /\ ValidateAuth(tool_param_auth, id_token_getters, t) = SatisfiedNow(t)
        /\ ValidateAuth(SourcesReversed(tool_param_auth), id_token_getters, t)
               = ValidateAuth(tool_param_auth, id_token_getters, t)

\* A tool with two required parameters, one of them satisfied only through
\* the second source of its list, passed the check of an invocation.
C2_Witness ==
    /\ Posted
    /\ last.tool \in DOMAIN tool_param_auth
    /\ Cardinality(DOMAIN tool_param_auth[last.tool]) = 2
    /\ \E param \in DOMAIN tool_param_auth[last.tool] :
          /\ Len(tool_param_auth[last.tool][param]) = 2
          /\ tool_param_auth[last.tool][param][1] \notin DOMAIN id_token_getters

C5_SatisfactionMonotone ==
    [][tool_param_auth' = tool_param_auth =>
          \A t \in ToolNames :
              ValidateAuth(tool_param_auth, id_token_getters, t)
                  => ValidateAuth(tool_param_auth', id_token_getters', t)]_vars

\* A source was registered while a tool that does not accept it was already
\* satisfied, and the tool still is.
C5_Witness ==
    /\ last.op = "add_auth_token"
    /\ \E t \in DOMAIN tool_param_auth :
          /\ last.args.auth_source \notin RequiredSources(t)
          /\ ValidateAuth(tool_param_auth, id_token_getters, t)

\* C6: a registration (add_auth_token, or the registrations at the head of
\* a load) ends without error, sets the getter of each given source, keeps
\* every other entry, so keeps the set of names when the name was there;
\* and an invocation resolves each credential with the getter then held.
C6_InsertOrOverwrite ==
    [][/\ last'.op = "add_auth_token" =>
            /\ last'.out.outcome = "ok"
            /\ DOMAIN id_token_getters'
                   = DOMAIN id_token_getters \cup {last'.args.auth_source}
            /\ id_token_getters'[last'.args.auth_source] = last'.args.get_id_token
            /\ \A s \in DOMAIN id_token_getters \ {last'.args.auth_source} :
                   id_token_getters'[s] = id_token_getters[s]
       /\ (IsLoad(last'.op) /\ last'.out.outcome = "pending") =>
            /\ DOMAIN id_token_getters'
                   = DOMAIN id_token_getters \cup DOMAIN last'.args
            /\ \A s \in DOMAIN last'.args : id_token_getters'[s] = last'.args[s]
            /\ \A s \in DOMAIN id_token_getters \ DOMAIN last'.args :
                   id_token_getters'[s] = id_token_getters[s]
       /\ (last'.op = "invoke" /\ last'.out.requests # <<>>) =>
            \A s \in DOMAIN id_token_getters :
                last'.out.requests[1].headers[HeaderName(s)]
                    = GetIdToken(id_token_getters[s])]_vars

\* s1 was registered when a satisfied tool that accepts s1 alone was loaded,
\* and was registered again since, with the getter now held.
C6_Witness ==
    /\ last.op = "add_auth_token"
    /\ last.args.auth_source = "s1"
    /\ id_token_getters["s1"] = last.args.get_id_token
    /\ \E t \in DOMAIN generated :
          /\ ~generated[t].warned
          /\ RequiredSources(t) = {"s1"}

\* C7: a load never ends in PermissionError; a successful load returns the
\* tools it was asked for and has warned about a returned tool exactly when
\* the tool's requirements are unsatisfied.
C7_LoadWarnsOnly ==
    IsLoad(last.op) =>
        /\ last.out.outcome # "PermissionError"
        /\ last.out.outcome = "ok" =>
              /\ last.op = "load_tool" => last.out.result = {last.tool}
              /\ last.out.result \subseteq DOMAIN generated
              /\ \A t \in last.out.result :
                    AuthWarning(t) \in last.out.warnings <=> ~SatisfiedNow(t)

C7_Witness ==
    /\ last.op = "load_tool"
    /\ last.out.outcome = "ok"
    /\ AuthWarning(last.tool) \in last.out.warnings
    /\ last.tool \in DOMAIN generated
    /\ ~SatisfiedNow(last.tool)

InvokeUrl(tool_name) == url \o "/api/tool/" \o tool_name \o "/invoke"

\* What C8 states of every invocation but the body.
C8_Common ==
    last.op = "invoke" =>
        IF ~SatisfiedNow(last.tool)
        THEN last.out.outcome = "PermissionError" /\ last.out.requests = <<>>
        ELSE /\ Len(last.out.requests) = 1
             /\ last.out.requests[1].url = InvokeUrl(last.tool)
             /\ \A s \in RequiredSources(last.tool) \cap DOMAIN id_token_getters :
                    last.out.requests[1].headers[s \o "_token"]
                        = GetIdToken(id_token_getters[s])

\* C8 as claimed: the body of the POST is the caller's arguments.
C8_BodyIsCallerArguments ==
    /\ C8_Common
    /\ Posted => last.out.requests[1].json = last.args

\* C8 as amended: the body is the caller's arguments with every null value
\* replaced by the empty string.
C8_LoadRegisterInvoke ==
    /\ C8_Common
    /\ Posted =>
          /\ DOMAIN last.out.requests[1].json = DOMAIN last.args
          /\ \A k \in DOMAIN last.args :
                last.out.requests[1].json[k]
                    = (IF last.args[k] = "none" THEN "str:" ELSE last.args[k])

\* A tool whose load warned (its source was unregistered) was invoked with
\* success after the registration, without a reload.
C8_Witness ==
    /\ Posted
    /\ last.out.outcome = "ok"
    /\ generated[last.tool].warned
    /\ RequiredSources(last.tool) = {"s1"}
    /\ last.args = [k \in {"p2"} |-> "int:5"]
    /\ last.out.requests[1].headers = [h \in {"s1_token"} |-> "tok1"]

\* Answers of the transport: 2xx or not, with whatever JSON body.
Answers == [ok : BOOLEAN, json : {"none", "str:row", "int:5"}]

\* C19: an invocation issues at most one POST; when the POST is answered
\* 2xx the invocation returns the JSON body as it is, and when it is
\* answered otherwise the invocation ends in the transport's error with no
\* result and no further POST.
C19_OnePostNoRetry ==
    /\ \A t \in DOMAIN generated, k \in KwargsSet, r \in Answers :
           LET o == ToolFunc(url, tool_param_auth, id_token_getters, t, k, r)
           IN  /\ Len(o.requests) <= 1
               /\ o.requests # <<>> =>
                      IF r.ok
                      THEN o.outcome = "ok" /\ o.result = r.json
                      ELSE o.outcome = "ClientResponseError" /\ o.result = "none"
    /\ last.op = "invoke" =>
           /\ Len(last.out.requests) <= 1
           /\ last.out.outcome = "ok" =>
                  /\ Len(last.out.requests) = 1
                  /\ \E r \in Responses : r.ok /\ last.out.result = r.json
           /\ last.out.outcome # "ok" => last.out.result = "none"

\* An invocation was answered non-2xx: one POST, the transport's error.
C19_Witness ==
    /\ last.op = "invoke"
    /\ last.out.outcome = "ClientResponseError"
    /\ Len(last.out.requests) = 1
    /\ last.out.result = "none"

\* How often getter g has to be called to resolve the registry once.
Registered(g) == Cardinality({s \in DOMAIN id_token_getters : id_token_getters[s] = g})

\* C28: registration and loads call no getter; an invocation refused by
\* the auth check calls none; an invocation that resolves credentials
\* calls the getter of each registered source exactly once, and a source
\* its tool accepts but no one registered is absent from the headers and
\* does not fail the invocation.
C28_GettersCalledAtInvocationOnly ==
    /\ (last.op = "add_auth_token" \/ IsLoad(last.op)) => last.called = NoCalls
    /\ last.op = "invoke" =>
           IF last.out.requests = <<>>
           THEN last.called = NoCalls /\ last.out.outcome = "PermissionError"
           ELSE /\ \A g \in Getters : last.called[g] = Registered(g)
                /\ DOMAIN last.out.requests[1].headers =
                       {HeaderName(s) : s \in DOMAIN id_token_getters}
                /\ \A s \in RequiredSources(last.tool) \ DOMAIN id_token_getters :
                       HeaderName(s) \notin DOMAIN last.out.requests[1].headers
                /\ last.out.outcome \in {"ok", "ClientResponseError"}

\* A tool that accepts two sources was invoked with one of them registered:
\* that getter was called once, the other source has no header, the POST
\* was answered.
C28_Witness ==
    /\ Posted
    /\ last.out.outcome = "ok"
    /\ RequiredSources(last.tool) \ DOMAIN id_token_getters # {}
    /\ \E g \in Getters : last.called[g] = 1
    /\ \E g \in Getters : last.called[g] = 0

\* No tool and no parameter leaves the requirement map in this step.
KeysKept ==
    \A t \in DOMAIN tool_param_auth :
        /\ t \in DOMAIN tool_param_auth'
        /\ DOMAIN tool_param_auth[t] \subseteq DOMAIN tool_param_auth'[t]

\* The parameters of tool t whose recorded source list this step changes.
Rewritten(t) ==
    {p \in DOMAIN tool_param_auth[t] :
        tool_param_auth'[t][p] # tool_param_auth[t][p]}

IsPlain(param) == param.authSources.isNone \/ param.authSources.list = <<>>

EntryOf(tool_name) ==
    IF tool_name \in DOMAIN tool_param_auth THEN tool_param_auth[tool_name]
    ELSE EmptyDict

AuthParamsOf(params) ==
    LET auth == {i \in 1..Len(params) : ~IsPlain(params[i])}
    IN  [n \in {params[i].name : i \in auth} |->
            (CHOOSE i \in auth : params[i].name = n)]

\* C3: after a manifest is processed, each of its tools is left with
\* exactly its plain parameters, in their order, and the tool's entry of the
\* requirement map holds exactly its authenticated parameters, each with
\* its source list.
C3_ExtractRoundTrip ==
    last.op = "process_auth_params" =>
        \A t \in DOMAIN last.args :
            LET params == last.args[t].parameters
                auth == AuthParamsOf(params)
            IN  /\ last.out.result[t].parameters = SelectSeq(params, IsPlain)
                /\ DOMAIN EntryOf(t) = DOMAIN auth
                /\ \A n \in DOMAIN auth :
                       EntryOf(t)[n] = params[auth[n]].authSources.list

\* The names of the input parameters of the tool object made for tool_name
\* from the manifest as _process_auth_params left it.
InputNames(tool_name, manifest) ==
    LET fn_schema == GenerateTool(tool_name, manifest).fn_schema
    IN  {fn_schema[i].name : i \in DOMAIN fn_schema}

\* C23: after any sequence of loads, no parameter name is both a key of a
\* tool's entry of the requirement map and an input parameter of the tool
\* object the load produced for that tool.
C23_AuthAndPlainDisjoint ==
    last.op = "process_auth_params" =>
        \A t \in DOMAIN last.out.result :
            t \in DOMAIN tool_param_auth =>
                InputNames(t, last.out.result) \cap DOMAIN tool_param_auth[t] = {}

(***************************************************************************)
(* Properties of LangChain tools (checked under SpecLC).                   *)
(***************************************************************************)
ToolsKept == tools \subseteq tools'

\* C9: binding a name that is one of the tool's authenticated parameters
\* fails with AlreadyAuthenticatedError and makes no tool, for every tool,
\* whatever tokens it holds, strict or not; and a bind that ended so left
\* the tools as they were.
C9_AuthenticatedNeverBound ==
    /\ [](\A self \in tools, b \in BindArgs, strict \in BOOLEAN :
            DOMAIN b \cap AuthParamNames(self) # {} =>
                BindParams(self, b, strict) =
                    LCResult("AlreadyAuthenticatedError", NoTool, {}))
    /\ [][last'.op = "bind_params"
             /\ last'.out.outcome = "AlreadyAuthenticatedError"
          => tools' = tools /\ last'.out.result = NoTool]_vars
    /\ [](\A self \in tools :
            DOMAIN self.bound_params \cap AuthParamNames(self) = {})

\* A bind of an authenticated parameter failed, on a tool that holds a
\* token for that parameter's source.
C9_Witness ==
    /\ last.op = "bind_params"
    /\ last.out.outcome = "AlreadyAuthenticatedError"
    /\ last.out.result = NoTool
    /\ last.tool \in tools
    /\ AuthParamNames(last.tool) # {}
    /\ ParamsMissingAuth(last.tool.auth_params, last.tool.auth_tokens) = {}

\* C10: binding a name that is already bound fails and makes no tool, with
\* AlreadyBoundError when no authenticated name is bound in the same call;
\* tools are never changed once made, and the tool a bind makes has every
\* binding of the tool it was made from, with the same value.
C10_BoundOnceAndForAll ==
    /\ [](\A self \in tools, b \in BindArgs, strict \in BOOLEAN :
            DOMAIN b \cap DOMAIN self.bound_params # {} =>
                LET r == BindParams(self, b, strict)
                IN  /\ r.tool = NoTool
                    /\ DOMAIN b \cap AuthParamNames(self) = {} =>
                           r.outcome = "AlreadyBoundError")
    /\ [][/\ ToolsKept
          /\ last'.op = "bind_params" /\ last'.out.outcome = "AlreadyBoundError"
                 => tools' = tools /\ last'.out.result = NoTool
          /\ last'.op = "bind_params" /\ last'.out.result # NoTool =>
                 LET self == last'.tool
                     made == last'.out.result
                 IN  /\ self \in tools
                     /\ tools' = tools \cup {made}
                     /\ DOMAIN self.bound_params \subseteq DOMAIN made.bound_params
                     /\ \A n \in DOMAIN self.bound_params :
                            made.bound_params[n] = self.bound_params[n]]_vars

\* A bind of a bound name failed, on a tool that two binds had made.
C10_Witness ==
    /\ last.op = "bind_params"
    /\ last.out.outcome = "AlreadyBoundError"
    /\ last.out.result = NoTool
    /\ last.tool \in tools
    /\ Cardinality(DOMAIN last.tool.bound_params) = 2


\* The names of a bind that are not plain parameters of the tool, when the
\* bind names no authenticated and no bound parameter.
UnknownNames(self, b) ==
    IF DOMAIN b \cap (AuthParamNames(self) \cup DOMAIN self.bound_params) # {}
    THEN {}
    ELSE DOMAIN b \ PlainParamNames(self)

C15_BindCopiesOnWrite ==
    /\ [](\A self \in tools, b \in BindArgs, strict \in BOOLEAN :
            LET r == BindParams(self, b, strict)
            IN  IF r.outcome = "ok"
                THEN /\ r.tool = [self EXCEPT !.bound_params = r.tool.bound_params]
                     /\ DOMAIN r.tool.bound_params =
                            DOMAIN self.bound_params \cup DOMAIN b
                     /\ \A n \in DOMAIN b : r.tool.bound_params[n] = b[n]
                     /\ \A n \in DOMAIN self.bound_params \ DOMAIN b :
                            r.tool.bound_params[n] = self.bound_params[n]
                ELSE r.tool = NoTool)
    /\ [][last'.op = "bind_params" /\ last' # last =>
             /\ ToolsKept
             /\ last'.tool \in tools /\ last'.tool \in tools'
             /\ tools' = IF last'.out.outcome = "ok"
                         THEN tools \cup {last'.out.result} ELSE tools]_vars

\* A bind made a tool with one more bound parameter, and the tool it was
\* called on is there with the bound parameters it had.
C15_Witness ==
    /\ last.op = "bind_params"
    /\ last.out.outcome = "ok"
    /\ last.tool \in tools
    /\ last.out.result \in tools
    /\ last.tool.bound_params # EmptyDict
    /\ DOMAIN last.tool.bound_params # DOMAIN last.out.result.bound_params

\* The sources of a mapping that the tool has a token for.
Duplicates(self, a) == DOMAIN a \cap DOMAIN self.auth_tokens

\* C16: add_auth_tokens with a mapping that has a source the tool holds
\* fails with ValueError naming exactly those sources and makes no tool;
\* the tools are as they were.
C16_DuplicateSourceRefused ==
    /\ [](\A self \in tools, a \in TokenDicts :
            Duplicates(self, a) # {} =>
                AddAuthTokens(self, a) =
                    LCError("ValueError", Duplicates(self, a)))
    /\ [][last'.op = "add_auth_tokens" /\ last' # last
             /\ last'.out.outcome = "ValueError"
          => /\ tools' = tools
             /\ last'.tool \in tools
             /\ last'.out.result = NoTool]_vars

\* add_auth_tokens was refused on a tool that holds a token.
C16_Witness ==
    /\ last.op = "add_auth_tokens"
    /\ last.out.outcome = "ValueError"
    /\ last.tool \in tools
    /\ last.tool.auth_tokens # EmptyDict

\* C17: add_auth_tokens with sources the tool does not hold returns a tool
\* whose tokens are the tool's and the given ones, and every tool there
\* was, the one called included, is still there with its tokens.
C17_AddAuthTokensCopies ==
    /\ [](\A self \in tools, a \in TokenDicts :
            Duplicates(self, a) = {} =>
                LET r == AddAuthTokens(self, a)
                IN  /\ r.outcome = "ok"
                    /\ DOMAIN r.tool.auth_tokens =
                           DOMAIN self.auth_tokens \cup DOMAIN a
                    /\ \A s \in DOMAIN a : r.tool.auth_tokens[s] = a[s]
                    /\ \A s \in DOMAIN self.auth_tokens :
                           r.tool.auth_tokens[s] = self.auth_tokens[s])
    /\ [][last'.op = "add_auth_tokens" /\ last' # last
             /\ last'.out.outcome = "ok"
          => /\ ToolsKept
             /\ last'.tool \in tools /\ last'.tool \in tools'
             /\ tools' = tools \cup {last'.out.result}]_vars

\* add_auth_tokens made a tool that holds a token the tool it was called on
\* does not hold.
C17_Witness ==
    /\ last.op = "add_auth_tokens"
    /\ last.out.outcome = "ok"
    /\ last.tool \in tools
    /\ last.out.result \in tools
    /\ DOMAIN last.tool.auth_tokens # DOMAIN last.out.result.auth_tokens

(***************************************************************************)
(* Properties of invoking a LangChain tool (checked under SpecCall).       *)
(***************************************************************************)
IsCall == last.op = "ainvoke"

CallPosted == IsCall /\ last.out.requests # <<>>

\* C12: an invocation that gives a bound name again ends in
\* DuplicateArgumentError with no POST and no warning, whatever the other
\* arguments are and whether or not the tool's tokens are there; and no
\* invocation changes a tool.
C12_DuplicateArgumentFirst ==
    /\ [](IsCall /\ DOMAIN last.args \cap DOMAIN last.tool.bound_params # {}
            => last.out = Outcome("DuplicateArgumentError", <<>>, {}, "none"))
    /\ [][last'.op = "ainvoke" /\ last' # last
            => tools' = tools /\ last'.tool \in tools]_vars

\* A bound name was given again to a tool that lacks a token and whose
\* other declared parameter was left out.
C12_Witness ==
    /\ IsCall
    /\ last.out.outcome = "DuplicateArgumentError"
    /\ last.tool \in tools
    /\ ParamsMissingAuth(last.tool.auth_params, last.tool.auth_tokens) # {}
    /\ \E k \in DOMAIN last.args :
          /\ k \in DOMAIN last.tool.bound_params
          /\ last.tool.bound_params[k] # last.args[k]

\* The bound parameters are in the body, each with its value now.
BoundInBody ==
    \A k \in DOMAIN last.tool.bound_params :
        /\ k \in DOMAIN last.out.requests[1].json
        /\ last.out.requests[1].json[k] =
               (IF last.tool.bound_params[k] = "fn:now"
                THEN ClockValue(last.at) ELSE last.tool.bound_params[k])

\* A tool with bound parameters was given other arguments and made its POST.
C13_Case ==
    /\ CallPosted
    /\ last.tool.bound_params # EmptyDict
    /\ DOMAIN last.args \cap DOMAIN last.tool.bound_params = {}

C14_BoundFunctionCalledAtInvocation ==
    /\ \A self \in tools, b \in BindArgs, strict \in BOOLEAN :
           LET r == BindParams(self, b, strict)
           IN  r.outcome = "ok" =>
                   \A k \in DOMAIN b : r.tool.bound_params[k] = b[k]
    /\ CallPosted =>
           \A k \in DOMAIN last.tool.bound_params :
               last.tool.bound_params[k] = "fn:now" =>
                   last.out.requests[1].json[k] = ClockValue(last.at)

\* A tool bound to a function was invoked after the function's value had
\* changed, and the POST carried the new value.
C14_Witness ==
    /\ CallPosted
    /\ last.at > 0
    /\ \E k \in DOMAIN last.tool.bound_params :
          /\ last.tool.bound_params[k] = "fn:now"
          /\ last.out.requests[1].json[k] = ClockValue(last.at)
          /\ last.out.requests[1].json[k] # ClockValue(0)


\* The value an invocation has for a name: the caller's, else the bound one.
MergedValue(n) ==
    IF n \in DOMAIN last.args THEN last.args[n]
    ELSE IF last.tool.bound_params[n] = "fn:now" THEN ClockValue(last.at)
    ELSE last.tool.bound_params[n]

\* The declared plain parameters of the invoked tool that are left out or
\* have a value of the other type.
Offending ==
    LET params == last.tool.schema.parameters
    IN  {params[i].name : i \in
            {j \in 1..Len(params) :
                LET n == params[j].name
                IN  \/ n \notin DOMAIN last.args \cup DOMAIN last.tool.bound_params
                    \/ /\ n \in DOMAIN last.args \cup DOMAIN last.tool.bound_params
                       /\ \/ params[j].type = "string"
                             /\ StartsWith(MergedValue(n), "int:")
                          \/ params[j].type = "integer"
                             /\ StartsWith(MergedValue(n), "str:")}}

HeadersSent == {x \o "_token" : x \in DOMAIN id_token_getters}

\* C20: _invoke_tool warns of the insecure channel exactly when there is a
\* registered source, so a credential header is sent, and the base URL is
\* not an https one; with or without the warning the POST is issued with
\* a header for every registered source.
C20_InsecureWarningIffHeadersOverHttp ==
    last.op = "invoke_tool" =>
        /\ Len(last.out.requests) = 1
        /\ DOMAIN last.out.requests[1].headers = HeadersSent
        /\ InsecureWarning \in last.out.warnings <=>
               (/\ last.out.requests[1].headers # EmptyDict
                /\ ~StartsWith(last.out.requests[1].url, "https://"))
        /\ last.out.warnings \subseteq {InsecureWarning}

\* Tokens went over http: the warning was given and the POST was issued
\* with its headers.
C20_Witness ==
    /\ last.op = "invoke_tool"
    /\ ~StartsWith(last.out.requests[1].url, "https://")
    /\ InsecureWarning \in last.out.warnings
    /\ Len(last.out.requests) = 1
    /\ last.out.requests[1].headers # EmptyDict


(***************************************************************************)
(* Properties of the client's session (checked under SpecClose).           *)
(***************************************************************************)
\* C21: a session passed in by the caller is never closed by the client,
\* whatever close calls and finalisation happen.
C21_PassedSessionNeverClosed ==
    ~should_close_session => session.closes = 0

\* A client given its session was closed explicitly, finalised on a running
\* loop, and the close() task of the finaliser ran.
C21_Witness ==
    /\ ~should_close_session
    /\ teardown.calls >= 1
    /\ teardown.del = "gone"
    /\ last.op = "close_task"
    /\ session.closes = 0

\* C22: once a client that made its own session has been closed any number
\* of times and finalised, the session's close was awaited exactly once.
C22_OwnSessionClosedOnce ==
    (should_close_session /\ teardown.del = "gone") => session.closes = 1


(***************************************************************************)
(* Properties of whole loads (checked under SpecLoad).                     *)
(***************************************************************************)
LoadFailed == IsLoad(last.op) /\ last.out.outcome # "ok"

\* C25: a load that fails, at the manifest GET or for a tool name the
\* manifest does not hold, leaves the credential registry and the
\* requirement map as they were when it was called.
C25_FailedLoadHasNoEffect ==
    [][LoadFailed' =>
           /\ id_token_getters' = id_token_getters
           /\ tool_param_auth' = tool_param_auth]_vars


(***************************************************************************)
(* Properties of overlapping invocations (checked under SpecConc).         *)
(***************************************************************************)
\* This step begins an invocation, ends one at its checks, delivers a
\* response or cancels a task.
InvocationStep == inflight' # inflight \/ (last'.op = "ainvoke" /\ last' # last)

\* C26: an invocation, whether it succeeds, fails validation, is refused
\* for missing credentials, gets a transport error or is cancelled before
\* the response, leaves the tools with their bound parameters, tokens and
\* authenticated parameters, the credential registry and the requirement
\* map as they were; the tool is still there and the same call made again
\* passes or fails the same checks and makes the same request.
C26_InvocationStateless ==
    /\ [](last.op = "ainvoke" =>
             /\ last.tool \in tools
             /\ UpToPost(last.tool, last.args).requests = last.out.requests
             /\ last.out.requests = <<>> =>
                    UpToPost(last.tool, last.args) = last.out)
    /\ [][InvocationStep =>
             /\ tools' = tools
             /\ id_token_getters' = id_token_getters
             /\ tool_param_auth' = tool_param_auth]_vars

\* An invocation of a tool with a bound parameter was cancelled while
\* another invocation was waiting for its response.
C26_Witness ==
    /\ last.op = "ainvoke"
    /\ last.out.outcome = "CancelledError"
    /\ last.tool.bound_params # EmptyDict
    /\ inflight # {}

\* The body of the request of an invocation: the names the caller gave and
\* the bound names, the caller's values as _invoke_tool sends them and the
\* bound values as they were when the invocation began.
OwnBody(tool, args, at, json) ==
    /\ DOMAIN json = DOMAIN args \cup DOMAIN tool.bound_params
    /\ \A k \in DOMAIN args : json[k] = ConvertNoneToEmptyString(args)[k]
    /\ \A k \in DOMAIN tool.bound_params :
           json[k] = (IF tool.bound_params[k] = "fn:now"
                      THEN ClockValue(at) ELSE tool.bound_params[k])

\* C27: however invocations of a tool overlap, the request of each one
\* carries its own arguments and the bound values and nothing of another
\* invocation, while it waits and when it ends, and no tool value is ever
\* changed once it was made.
C27_ConcurrentInvocationsIndependent ==
    /\ [](/\ \A c \in inflight :
                /\ c.tool \in tools
                /\ OwnBody(c.tool, c.args, c.at, c.request.json)
          /\ (last.op = "ainvoke" /\ last.out.requests # <<>>) =>
                OwnBody(last.tool, last.args, last.at, last.out.requests[1].json))
    /\ [][tools \subseteq tools']_vars

\* Two invocations of one bound tool, given different arguments, wait for
\* their responses at the same time.
C27_Witness ==
    \E c1, c2 \in inflight :
        /\ c1.tool = c2.tool
        /\ c1.tool.bound_params # EmptyDict
        /\ c1.args # c2.args
        /\ c1.args # EmptyDict /\ c2.args # EmptyDict


BodyInputs ==
    UNION {[S -> CallValues \cup {"str:"}] : S \in SUBSET ParamNames}

\* body is what is sent for the argument map data.
SentAs(data, body) ==
    /\ DOMAIN body = DOMAIN data
    /\ \A k \in DOMAIN data :
           body[k] = (IF data[k] = "none" THEN "str:" ELSE data[k])

\* C31: the body of the POST has the keys of the argument map, the empty
\* string where the map has null and the map's value everywhere else, and
\* the map the caller passed is the same after the call.
C31_BodyIsArgumentsWithoutNulls ==
    /\ \A d \in BodyInputs :
           /\ SentAs(d, ConvertNoneToEmptyString(d))
           /\ InputAfterConvert(d) = d
    /\ last.op = "invoke_tool" =>
           /\ SentAs(last.args, last.out.requests[1].json)
           /\ last.data_after = last.args

\* _invoke_tool was given a null argument and sent the empty string.
C31_Witness ==
    /\ last.op = "invoke_tool"
    /\ \E k \in DOMAIN last.args :
           /\ last.args[k] = "none"
           /\ last.out.requests[1].json[k] = "str:"
           /\ last.data_after[k] = "none"


\* The invoked tool has an authenticated parameter none of whose sources is
\* registered on it.
CallUnsatisfied ==
    ParamsMissingAuth(last.tool.auth_params, last.tool.auth_tokens) # {}

\* C32 (checked under SpecCall): the steps of invoke run in order: an
\* invocation giving a bound name again ends in DuplicateArgumentError
\* whether or not its arguments conform and its tokens are there; otherwise
\* one with non-conforming arguments ends in ValidationError, also when the
\* tool lacks a token; otherwise one on a tool that lacks a token ends in
\* PermissionError; and none of the three posts.
C32_StepsInOrder ==
    IsCall =>
        LET dup == DOMAIN last.args \cap DOMAIN last.tool.bound_params # {}
        IN  /\ dup => last.out.outcome = "DuplicateArgumentError"
            /\ ~dup /\ Offending # {} => last.out.outcome = "ValidationError"
            /\ ~dup /\ Offending = {} /\ CallUnsatisfied
                  => last.out.outcome = "PermissionError"
            /\ dup \/ Offending # {} \/ CallUnsatisfied
                  => last.out.requests = <<>>

\* Non-conforming arguments were given to a tool that lacks a token.
C32_Witness ==
    /\ IsCall
    /\ DOMAIN last.args \cap DOMAIN last.tool.bound_params = {}
    /\ Offending # {}
    /\ CallUnsatisfied
    /\ last.out.outcome = "ValidationError"


\* This step is the head of a load_tool or load_toolset call.
BeginsLoad == pending = NoLoad /\ pending' # NoLoad

\* The registry after the step is the one before it with exactly the entries
\* of the mapping put in.
RegisteredOver(mapping) ==
    /\ DOMAIN id_token_getters' = DOMAIN id_token_getters \cup DOMAIN mapping
    /\ \A s \in DOMAIN id_token_getters' :
          id_token_getters'[s] =
              IF s \in DOMAIN mapping THEN mapping[s] ELSE id_token_getters[s]

\* C33 (checked under Spec): the head of load_tool and of load_toolset, given
\* both auth_tokens and auth_headers, registers the entries of auth_tokens
\* and none of auth_headers; given auth_headers alone it registers them as it
\* would register auth_tokens; it warns of the deprecation in both cases and
\* in no other; and the load goes on to fetch the manifest.
C33_DeprecatedAuthHeaders ==
    [][BeginsLoad =>
          LET a == last'.auth_tokens
              h == last'.auth_headers
          IN  /\ IsLoad(last'.op) /\ pending'.op = last'.op
              /\ a # EmptyDict => RegisteredOver(a)
              /\ a = EmptyDict => RegisteredOver(h)
              /\ last'.out.warnings # {} <=> h # EmptyDict
              /\ \A w \in last'.out.warnings : w.kind \in
                     {IF a # EmptyDict THEN "deprecated_both"
                      ELSE "deprecated_headers"}]_vars

\* A load was given both mappings: the source of auth_tokens is registered,
\* the source of auth_headers is not, and the manifest is awaited.
C33_Witness ==
    /\ IsLoad(last.op) /\ last.out.outcome = "pending"
    /\ last.auth_tokens # EmptyDict /\ last.auth_headers # EmptyDict
    /\ DOMAIN last.auth_tokens \subseteq DOMAIN id_token_getters
    /\ DOMAIN last.auth_headers \cap DOMAIN id_token_getters = {}
    /\ last.out.warnings = {DeprecationBoth}
    /\ pending # NoLoad


\* The sources some authenticated parameter of the tool accepts.
AcceptedSources(self) ==
    UNION {{self.auth_params[i].authSources[j] :
               j \in 1..Len(self.auth_params[i].authSources)} :
           i \in 1..Len(self.auth_params)}

\* The tool has an authenticated parameter none of whose sources it holds.
Unsatisfied(self) == ParamsMissingAuth(self.auth_params, self.auth_tokens) # {}

\* C34 (checked under SpecSingle): the tool add_auth_token returns has the
\* authenticated parameters, with their acceptable sources, of the tool it
\* was called on; and when that tool lacks a token and the source given is
\* one none of its parameters accepts, the returned tool is refused at the
\* auth check and posts nothing.
C34_CopyKeepsAuthParams ==
    last.op = "tool.add_auth_token" /\ last.ret.outcome = "ok" =>
        /\ last.ret.tool.auth_params = last.tool.auth_params
        /\ Unsatisfied(last.tool)
              /\ last.args.auth_source \notin AcceptedSources(last.tool)
           => \A r \in Responses :
                 LET out == LCToolFunc(last.ret.tool, EmptyDict, r)
                 IN  out.outcome = "PermissionError" /\ out.requests = <<>>


\* This step is the rest of a load, from the manifest's arrival on.
FinishesLoad ==
    pending # NoLoad /\ pending' = NoLoad /\ last'.out.outcome \notin FetchErrors

\* The tool's entry of the requirement map is the same after the step.
EntryKept(tool_name) ==
    /\ tool_name \in DOMAIN tool_param_auth' <=> tool_name \in DOMAIN tool_param_auth
    /\ tool_name \in DOMAIN tool_param_auth
          => tool_param_auth'[tool_name] = tool_param_auth[tool_name]

\* C35 (checked under Spec): a load given no tokens changes nothing at its
\* head; when its manifest arrives, every tool the manifest does not name
\* keeps its entry of the requirement map and the answer of the auth check;
\* and a load whose GET fails changes no entry.
C35_LoadTouchesOnlyItsTools ==
    [][/\ BeginsLoad /\ last'.args = EmptyDict
             => /\ tool_param_auth' = tool_param_auth
                /\ id_token_getters' = id_token_getters
       /\ FinishesLoad
             => \A t \in ToolNames \ last'.fetched :
                   /\ EntryKept(t)
                   /\ ValidateAuth(tool_param_auth', id_token_getters', t)
                         = ValidateAuth(tool_param_auth, id_token_getters, t)
       /\ pending # NoLoad /\ pending' = NoLoad /\ ~FinishesLoad
             => tool_param_auth' = tool_param_auth]_vars

\* A load ended whose manifest named one tool with an authenticated
\* parameter while another tool, not in it, has an entry and fails the auth
\* check.
C35_Witness ==
    /\ IsLoad(last.op) /\ last.out.outcome = "ok"
    /\ \E u \in last.fetched : u \in DOMAIN tool_param_auth
    /\ \E t \in DOMAIN tool_param_auth \ last.fetched :
          ~ValidateAuth(tool_param_auth, id_token_getters, t)


\* The headers the held tool would send with a POST now.
HeadersNow(h) == GetAuthHeaders(dicts[h.ref])

\* C36 (checked under SpecToolset): the tools of one load_toolset call refer
\* to one auth_tokens object, and add_auth_tokens on a tool, whether it
\* returns a tool or raises, leaves every tool held before it with the
\* sources and getters it had, the same answer of the auth check and the
\* same headers.
C36_AddAuthTokensLeavesOtherTools ==
    /\ [](last.op = "lc_load_toolset" => \A h \in tools : h.ref = 1)
    /\ [][last'.op = "toolset.add_auth_tokens" /\ last' # last =>
             \A h \in tools :
                /\ h \in tools'
                /\ dicts'[h.ref] = dicts[h.ref]
                /\ Unsatisfied(Deref(h)') = Unsatisfied(Deref(h))
                /\ HeadersNow(h)' = HeadersNow(h)]_vars

\* add_auth_tokens returned a tool while a second tool of the toolset, which
\* lacks a token, refers to the same dict as the tool it was called on; the
\* second tool still lacks the source that was added.
C36_Witness ==
    /\ last.op = "toolset.add_auth_tokens" /\ last.out.outcome = "ok"
    /\ \E h \in tools :
          /\ h # last.tool /\ h.ref = last.tool.ref
          /\ h.tool.name # last.tool.tool.name
          /\ Unsatisfied(Deref(h))
          /\ DOMAIN last.args \cap DOMAIN dicts[h.ref] = {}


\* Every parameter of the requirements has an acceptable source whose token
\* is among the headers.
HeadersCover(required, headers) ==
    \A param \in DOMAIN required :
        \E i \in 1..Len(required[param]) :
            HeaderName(required[param][i]) \in DOMAIN headers

\* C37 (checked under SpecRace): however registrations fall between the
\* steps of invocations, a POST is issued with the headers of the registry
\* as it is at that step, that registry passes the check against the
\* requirements the invocation was checked against, and so the headers of
\* every POST hold, for every required parameter, the token of one of its
\* acceptable sources.
C37_PostHeadersPassCheck ==
    /\ [](\A c \in inflight :
             c.pos = "posted" => HeadersCover(c.required, c.request.headers))
    /\ [][\A c \in inflight' \ inflight :
              c.pos = "posted" =>
                 /\ c.request.headers = GetAuthHeaders(id_token_getters)
                 /\ ValidateAuth([t \in {c.tool} |-> c.required],
                        id_token_getters, c.tool)]_vars

\* A POST for a tool with a required parameter awaits its response, a
\* second invocation has passed its check, and a source was registered
\* since the headers were built.
C37_Witness ==
    /\ \E c \in inflight :
          /\ c.pos = "posted" /\ c.required # EmptyDict
          /\ \E s \in DOMAIN id_token_getters :
                HeaderName(s) \notin DOMAIN c.request.headers
    /\ \E c \in inflight : c.pos = "checked"


\* C38 (checked under SpecGetter): when a getter of the registry raises, the
\* invocation ends with what the getter raised, without a POST and without
\* a warning; when none raises there is a POST; and in either case the
\* registry holds the getters it held.
C38_GetterErrorEndsInvocation ==
    /\ [](last.op = "invoke_tool" =>
             IF Raises(id_token_getters)
             THEN last.out = Outcome(GetterError, <<>>, {}, "none")
             ELSE Len(last.out.requests) = 1)
    /\ [][last'.op = "invoke_tool" => id_token_getters' = id_token_getters]_vars

\* An invocation ended with the getter's error while the registry holds a
\* getter that returns and one that raises.
C38_Witness ==
    /\ last.op = "invoke_tool"
    /\ last.out.outcome = GetterError
    /\ last.out.requests = <<>>
    /\ \E s \in DOMAIN id_token_getters : id_token_getters[s] = RaisingGetter
    /\ \E s \in DOMAIN id_token_getters : id_token_getters[s] # RaisingGetter

====
